---- MODULE Spec2Model ----
(***************************************************************************)
(* Debt-tracking chat bot (src/index.js, v2.4 part: lines 1-2310).         *)
(* The three sheets of the row store (Transactions, Aliases, FriendLinks)  *)
(* are the state; every inbound message is one handler run.                *)
(*                                                                         *)
(* Text is modelled as a sequence of characters.  A character is a short   *)
(* ASCII token: "a^" stands for an accented a (as in "Bảo"), "o'" for an   *)
(* accented o, "d-" / "D-" for the Vietnamese d with stroke.               *)
(***************************************************************************)
EXTENDS Integers, Sequences, FiniteSets, TLC

\* ------------------------------------------------------------------ bounds
\* Transactions rows ever appended.
MaxTx == 2
\* Rows of the FriendLinks sheet.
MaxLinks == 2
\* Rows of the Aliases sheet while handlers overlap.
MaxAliasRows == 2
\* Characters of an amount token.
MaxAmountLen == 4

\* ------------------------------------------------------------- input sets
Users == {"u1", "u2", "u3"}

NoName == <<>>
Bao == <<"B", "a", "o">>
BaoAccent == <<"B", "a^", "o">>
Chi == <<"C", "h", "i">>
Chung == <<"C", "h", "u", "n", "g">>
AiDo == <<"A", "i", " ", "d-", "o'">>
UserName == <<"U", "s", "e", "r">>
UnknownKey == <<"_", "_", "u", "n", "k", "n", "o", "w", "n", "_", "_">>
One == <<"1">>
An == <<"A", "n">>

\* first_name of the external profile of each party (getFacebookProfile);
\* the profile of u3 has none
FirstName == [u \in Users |-> IF u = "u1" THEN BaoAccent ELSE IF u = "u2" THEN Bao ELSE NoName]

\* names a party may type after `alias`
AliasInputs == {An, Bao}
\* names a party may type after `link <code>`
LinkNameInputs == {Bao}
\* counterparty of a DEBT / PAID command (NoName: no counterparty given)
DebtorInputs == {NoName, BaoAccent, Chi, An}
\* filter of a CHECK command (NoName: none)
FilterInputs == {NoName, Bao}
AmountInputs == {1, 2}
ContentInputs == {<<"c", "o", "m">>}
\* values of generateCode; NoCode: generateCode is not called
Codes == {"K1", "K2"}
NoCode == ""

\* ------------------------------------------------------------------- text
Digits == {"0", "1", "2", "3", "4", "5", "6", "7", "8", "9"}
LowerLetters == {"a", "b", "c", "d", "e", "g", "h", "i", "k", "m", "n", "o", "r", "s", "t", "u",
                 "w", "x"}

\* String.prototype.toLowerCase on one character
ToLowerChar(c) ==
  CASE c = "A" -> "a" [] c = "B" -> "b" [] c = "C" -> "c" [] c = "U" -> "u"
    [] c = "K" -> "k" [] c = "M" -> "m" [] c = "N" -> "n" [] c = "O" -> "o"
    [] c = "D-" -> "d-" [] OTHER -> c

ToUpperChar(c) ==
  CASE c = "a" -> "A" [] c = "b" -> "B" [] c = "c" -> "C" [] c = "u" -> "U"
    [] c = "d-" -> "D-" [] OTHER -> c

\* normalize('NFD') followed by the removal of the combining marks
StripMarks(c) ==
  CASE c = "a^" -> "a" [] c = "a?" -> "a" [] c = "o'" -> "o" [] c = "o+." -> "o"
    [] OTHER -> c

normalizeVietnamese(str) ==
  LET F(c) == LET x == StripMarks(ToLowerChar(c)) IN
              IF x \in {"d-", "D-"} THEN "d" ELSE x
      Keep(c) == c \in LowerLetters \cup Digits
  IN SelectSeq([i \in 1..Len(str) |-> F(str[i])], Keep)

DigitValue(c) ==
  CASE c = "0" -> 0 [] c = "1" -> 1 [] c = "2" -> 2 [] c = "3" -> 3 [] c = "4" -> 4
    [] c = "5" -> 5 [] c = "6" -> 6 [] c = "7" -> 7 [] c = "8" -> 8 [] OTHER -> 9

\* /^\d+$/.test(s)
IsNumeric(s) == Len(s) > 0 /\ \A i \in 1..Len(s) : s[i] \in Digits

RECURSIVE ParseInt(_)
ParseInt(s) ==
  IF s = <<>> THEN 0 ELSE ParseInt(SubSeq(s, 1, Len(s) - 1)) * 10 + DigitValue(s[Len(s)])

RECURSIVE IntToText(_)
IntToText(n) ==
  LET d == <<"0", "1", "2", "3", "4", "5", "6", "7", "8", "9">>[(n % 10) + 1] IN
  IF n < 10 THEN <<d>> ELSE IntToText(n \div 10) \o <<d>>

\* ------------------------------------------------------------------ state
VARIABLES
  transactions,   \* sheet 0: rows in insertion order
  aliases,        \* sheet Aliases: rows in insertion order
  friendLinks,    \* sheet FriendLinks: rows in insertion order
  clock,          \* rows appended to sheet 0 so far; the Date of the next row
  lastOp,         \* the message handled last
  response,       \* the reply to its sender
  outbox,         \* what was sent to other parties while handling it
  decided,        \* history: the codes of the rows confirmed or rejected so far
  tasks           \* handlers in flight between two awaits: what each has read

vars == <<transactions, aliases, friendLinks, clock, lastOp, response, outbox, decided,
          tasks>>

\* handleMessage is not awaited by the webhook: handlers of several messages
\* may be in flight at once
Tasks == {"t1", "t2"}

Idle == [pc |-> "idle"]

\* Array.prototype.find / findIndex on the rows of a sheet, given the set of
\* the indices that pass the test: the first of them, 0 when none
FindIndex(hits) ==
  IF hits = {} THEN 0 ELSE CHOOSE i \in hits : \A j \in hits : i <= j

\* row.delete()
RemoveAt(rows, i) == SubSeq(rows, 1, i - 1) \o SubSeq(rows, i + 1, Len(rows))

\* ------------------------------------------------------- Aliases sheet
\* A missing alias (null) and an empty one ('') are both falsy: NoName.
getAliasByUserId(al, userId) ==
  LET i == FindIndex({ix \in 1..Len(al) : al[ix].UserID = userId}) IN
  IF i = 0 THEN NoName ELSE al[i].Alias

\* "" when no row matches (null)
getUserIdByAlias(al, alias) ==
  LET inputNorm == normalizeVietnamese(alias)
      i == FindIndex({ix \in 1..Len(al) : al[ix].Alias # NoName /\ normalizeVietnamese(al[ix].Alias) = inputNorm})
  IN IF i = 0 THEN "" ELSE al[i].UserID

\* the result of setAlias and the Aliases sheet after it
\* existingRow that never finds the party's row
existingRow_None(al, userId) == 0

\* setAlias: rows.find(r => r.get('UserID') === userId); 0 when there is none
existingRow(al, userId) == FindIndex({ix \in 1..Len(al) : al[ix].UserID = userId})

\* setAlias without the test of the name
setAlias_NoNameTest(al, userId, alias) ==
  LET j == existingRow(al, userId)
  IN [success |-> TRUE,
      table |-> IF j # 0 THEN [al EXCEPT ![j].Alias = alias]
                ELSE Append(al, [UserID |-> userId, Alias |-> alias])]

setAlias(al, userId, alias) ==
  LET inputNorm == normalizeVietnamese(alias)
      i == FindIndex({ix \in 1..Len(al) : al[ix].Alias # NoName /\ normalizeVietnamese(al[ix].Alias) = inputNorm})
      j == existingRow(al, userId)
  IN IF i # 0 /\ al[i].UserID # userId
     THEN [success |-> FALSE, table |-> al]
     ELSE [success |-> TRUE,
           table |-> IF j # 0 THEN [al EXCEPT ![j].Alias = alias]
                     ELSE Append(al, [UserID |-> userId, Alias |-> alias])]

\* the while loop of generateUniqueAlias
RECURSIVE FreeCandidate(_, _, _, _)
FreeCandidate(cleanName, candidate, counter, existingAliases) ==
  IF normalizeVietnamese(candidate) \in existingAliases
  THEN FreeCandidate(cleanName, cleanName \o IntToText(counter), counter + 1, existingAliases)
  ELSE candidate

generateUniqueAlias(al, baseName) ==
  LET F(c) == LET x == StripMarks(c) IN
              IF x = "d-" THEN "d" ELSE IF x = "D-" THEN "D" ELSE x
      Keep(c) == ToLowerChar(c) \in LowerLetters \cup Digits
      stripped == SelectSeq([i \in 1..Len(baseName) |-> F(baseName[i])], Keep)
      capitalized == [i \in 1..Len(stripped) |->
                        IF i = 1 THEN ToUpperChar(stripped[i]) ELSE ToLowerChar(stripped[i])]
      cleanName == IF capitalized = <<>> THEN UserName ELSE capitalized
      existingAliases == {normalizeVietnamese(al[i].Alias) : i \in 1..Len(al)}
  IN FreeCandidate(cleanName, cleanName, 2, existingAliases)

\* the alias given (NoName: none) and the Aliases sheet after it;
\* profileOk = FALSE: getFacebookProfile returned null
autoSetAliasFromFacebook(al, userId, profileOk) ==
  IF getAliasByUserId(al, userId) # NoName \/ ~profileOk \/ FirstName[userId] = NoName
  THEN [alias |-> NoName, table |-> al]
  ELSE LET alias == generateUniqueAlias(al, FirstName[userId])
           result == setAlias(al, userId, alias)
       IN [alias |-> IF result.success THEN alias ELSE NoName, table |-> result.table]

buildAliasCache(al) ==
  [u \in Users |->
     LET own == SelectSeq(al, LAMBDA r : r.UserID = u /\ r.Alias # NoName) IN
     IF own = <<>> THEN NoName ELSE own[Len(own)].Alias]

\* --------------------------------------------------- FriendLinks sheet
IsActiveLink(r, a, b) ==
  /\ r.Status = "ACTIVE"
  /\ \/ r.UserID_A = a /\ r.UserID_B = b
     \/ r.UserID_A = b /\ r.UserID_B = a

\* "" when nobody is found (null)
getFriendUserId(fl, al, userId, friendAlias) ==
  LET inputNorm == normalizeVietnamese(friendAlias)
      hitA(r) == r.UserID_A = userId /\ r.AliasOfBForA # NoName
                 /\ normalizeVietnamese(r.AliasOfBForA) = inputNorm
      hitB(r) == r.UserID_B = userId /\ r.AliasOfAForB # NoName
                 /\ normalizeVietnamese(r.AliasOfAForB) = inputNorm
      i == FindIndex({ix \in 1..Len(fl) : fl[ix].Status = "ACTIVE" /\ (hitA(fl[ix]) \/ hitB(fl[ix]))})
  IN IF i = 0 THEN getUserIdByAlias(al, friendAlias)
     ELSE IF hitA(fl[i]) THEN fl[i].UserID_B ELSE fl[i].UserID_A

getLinkedFriends(fl, al, userId) ==
  LET mine == SelectSeq(fl, LAMBDA r : r.Status = "ACTIVE"
                                       /\ (r.UserID_A = userId \/ r.UserID_B = userId))
  IN [i \in 1..Len(mine) |->
        IF mine[i].UserID_A = userId
        THEN [userId |-> mine[i].UserID_B, alias |-> mine[i].AliasOfBForA]
        ELSE [userId |-> mine[i].UserID_A,
              alias |-> IF mine[i].AliasOfAForB # NoName THEN mine[i].AliasOfAForB
                        ELSE getAliasByUserId(al, mine[i].UserID_A)]]

\* NoName when the index is out of range or the entry has no name (null)
getFriendAliasByIndex(fl, al, userId, index1Based) ==
  LET friends == getLinkedFriends(fl, al, userId) IN
  IF index1Based - 1 < 0 \/ index1Based - 1 >= Len(friends) THEN NoName
  ELSE friends[index1Based].alias


\* ---------------------------------------------------- Transactions sheet
\* The rows read back: Amount is written and read as a positive integer
\* below 2^53, on which parseInt(String(n)) = n.
getRowsByUser(tx, userId) ==
  SelectSeq(tx, LAMBDA r : r.UserID = userId \/ r.DebtorUserID = userId)

\* the first row of the sheet, whatever its code
findDebtByCode_AnyCode(tx, code) == IF tx = <<>> THEN 0 ELSE 1

\* the last row with that code instead of the first
findDebtByCode_LastMatch(tx, code) ==
  LET hits == {ix \in 1..Len(tx) : tx[ix].DebtCode = code} IN
  IF hits = {} THEN 0 ELSE CHOOSE ix \in hits : \A j \in hits : j <= ix

\* index in the sheet of the first row with that code, 0 when none
findDebtByCode(tx, code) == FindIndex({ix \in 1..Len(tx) : tx[ix].DebtCode = code})

\* row.save() writing nothing
updateDebtStatus_NotSaved(tx, i, newStatus) == tx

\* the status written and the code of the row cleared
updateDebtStatus_ClearCode(tx, i, newStatus) ==
  [tx EXCEPT ![i].Status = newStatus, ![i].DebtCode = NoCode]

\* the status written to every row of the sheet
updateDebtStatus_EveryRow(tx, i, newStatus) ==
  [k \in 1..Len(tx) |-> [tx[k] EXCEPT !.Status = newStatus]]

updateDebtStatus(tx, i, newStatus) == [tx EXCEPT ![i].Status = newStatus]

\* the filter on the debtor only, whatever the status
getPendingDebtsForUser_AnyStatus(tx, userId) ==
  SelectSeq(tx, LAMBDA r : r.DebtorUserID = userId)

\* the rows awaiting userId's decision, in sheet order
getPendingDebtsForUser(tx, userId) ==
  SelectSeq(tx, LAMBDA r : r.DebtorUserID = userId /\ r.Status = "PENDING")

\* LastOwnIndex without the filter on the creator: the last row getRowsByUser
\* returns for the party
LastOwnIndex_AnyVisible(tx, userId) ==
  IF \E i \in 1..Len(tx) : tx[i].UserID = userId \/ tx[i].DebtorUserID = userId
  THEN CHOOSE i \in 1..Len(tx) :
         /\ tx[i].UserID = userId \/ tx[i].DebtorUserID = userId
         /\ \A j \in (i + 1)..Len(tx) : tx[j].UserID # userId /\ tx[j].DebtorUserID # userId
  ELSE 0

\* index in the sheet of the row deleteLastTransaction deletes, 0 when none
LastOwnIndex(tx, userId) ==
  IF \E i \in 1..Len(tx) : tx[i].UserID = userId
  THEN CHOOSE i \in 1..Len(tx) :
         tx[i].UserID = userId /\ \A j \in (i + 1)..Len(tx) : tx[j].UserID # userId
  ELSE 0

deleteLastTransaction(tx, userId) ==
  LET i == LastOwnIndex(tx, userId) IN
  IF i = 0 THEN tx ELSE RemoveAt(tx, i)

\* ------------------------------------------------------------- replies
Reply(kind) == [kind |-> kind, code |-> "", list |-> <<>>, total |-> 0]
ReplyCode(kind, code) == [kind |-> kind, code |-> code, list |-> <<>>, total |-> 0]
ReplyList(kind, list, total) == [kind |-> kind, code |-> "", list |-> list, total |-> total]

Note(to, kind, code) == [to |-> to, kind |-> kind, code |-> code]

\* ------------------------------------------- handleAddDebt / handleRepayDebt
\* RecordEntry asking for confirmation whenever a counterparty is named,
\* found or not
RecordEntry_PendingIfNamed(tx, fl, al, date, type, userId, amount, debtor, content, newCode) ==
  LET debtorUserId == IF debtor # NoName THEN getFriendUserId(fl, al, userId, debtor) ELSE ""
      rowData == [Date |-> date, UserID |-> userId,
                  Debtor |-> IF debtor # NoName THEN debtor ELSE Chung,
                  Type |-> type, Amount |-> amount, Content |-> content,
                  DebtorUserID |-> debtorUserId,
                  Status |-> IF debtor # NoName THEN "PENDING" ELSE "CONFIRMED",
                  DebtCode |-> IF debtorUserId # "" THEN newCode ELSE ""]
  IN [tx |-> Append(tx, rowData), coded |-> debtorUserId # "",
      reply |-> IF debtorUserId # "" THEN ReplyCode("PENDING_SENT", newCode)
                ELSE Reply("RECORDED"),
      notes |-> IF debtorUserId # "" THEN <<Note(debtorUserId, "NEW_PENDING", newCode)>>
                ELSE <<>>]

\* The two handlers differ in the Type they write and in the wording of
\* their messages.  Result: the sheet, whether generateCode was called
\* (newCode is its value), the reply and the notifications.
RecordEntry(tx, fl, al, date, type, userId, amount, debtor, content, newCode) ==
  LET numeric == debtor # NoName /\ IsNumeric(debtor)
      aliasFromIndex == getFriendAliasByIndex(fl, al, userId, ParseInt(debtor))
      resolvedDebtor == IF numeric THEN aliasFromIndex ELSE debtor
      debtorUserId == IF debtor # NoName THEN getFriendUserId(fl, al, userId, resolvedDebtor)
                      ELSE ""
      pending == debtorUserId # ""
      rowData == [Date |-> date, UserID |-> userId,
                  Debtor |-> IF resolvedDebtor # NoName THEN resolvedDebtor ELSE Chung,
                  Type |-> type, Amount |-> amount, Content |-> content,
                  DebtorUserID |-> debtorUserId,
                  Status |-> IF pending THEN "PENDING" ELSE "CONFIRMED",
                  DebtCode |-> IF pending THEN newCode ELSE ""]
  IN IF numeric /\ aliasFromIndex = NoName
     THEN [tx |-> tx, coded |-> FALSE, reply |-> Reply("INVALID_INDEX"), notes |-> <<>>]
     ELSE [tx |-> Append(tx, rowData), coded |-> pending,
           reply |-> IF pending THEN ReplyCode("PENDING_SENT", newCode) ELSE Reply("RECORDED"),
           notes |-> IF pending THEN <<Note(debtorUserId, "NEW_PENDING", newCode)>> ELSE <<>>]

handleAddDebt(tx, fl, al, date, userId, amount, debtor, content, newCode) ==
  RecordEntry(tx, fl, al, date, "DEBT", userId, amount, debtor, content, newCode)

handleRepayDebt(tx, fl, al, date, userId, amount, debtor, content, newCode) ==
  RecordEntry(tx, fl, al, date, "PAID", userId, amount, debtor, content, newCode)

\* ------------------------------------- handleConfirmDebt / handleRejectDebt
\* Decide without the test of the row's status
Decide_NoStatusTest(tx, userId, code, newStatus, okKind, noteKind) ==
  LET i == findDebtByCode(tx, code) IN
  IF i = 0 THEN [tx |-> tx, reply |-> Reply("NOT_FOUND"), notes |-> <<>>]
  ELSE IF tx[i].DebtorUserID # userId
  THEN [tx |-> tx, reply |-> Reply("NOT_AUTHORIZED"), notes |-> <<>>]
  ELSE [tx |-> updateDebtStatus(tx, i, newStatus),
        reply |-> ReplyCode(okKind, code),
        notes |-> <<Note(tx[i].UserID, noteKind, code)>>]

\* Decide without the test of the invoking party
Decide_NoPartyTest(tx, userId, code, newStatus, okKind, noteKind) ==
  LET i == findDebtByCode(tx, code) IN
  IF i = 0 THEN [tx |-> tx, reply |-> Reply("NOT_FOUND"), notes |-> <<>>]
  ELSE IF tx[i].Status # "PENDING"
  THEN [tx |-> tx, reply |-> Reply("ALREADY_PROCESSED"), notes |-> <<>>]
  ELSE [tx |-> updateDebtStatus(tx, i, newStatus),
        reply |-> ReplyCode(okKind, code),
        notes |-> <<Note(tx[i].UserID, noteKind, code)>>]

Decide(tx, userId, code, newStatus, okKind, noteKind) ==
  LET i == findDebtByCode(tx, code) IN
  IF i = 0 THEN [tx |-> tx, reply |-> Reply("NOT_FOUND"), notes |-> <<>>]
  ELSE IF tx[i].Status # "PENDING"
  THEN [tx |-> tx, reply |-> Reply("ALREADY_PROCESSED"), notes |-> <<>>]
  ELSE IF tx[i].DebtorUserID # userId
  THEN [tx |-> tx, reply |-> Reply("NOT_AUTHORIZED"), notes |-> <<>>]
  ELSE [tx |-> updateDebtStatus(tx, i, newStatus),
        reply |-> ReplyCode(okKind, code),
        notes |-> <<Note(tx[i].UserID, noteKind, code)>>]

handleConfirmDebt(tx, userId, code) ==
  Decide(tx, userId, code, "CONFIRMED", "CONFIRM_OK", "WAS_CONFIRMED")

handleRejectDebt(tx, userId, code) ==
  Decide(tx, userId, code, "REJECTED", "REJECT_OK", "WAS_REJECTED")

handleUndo(tx, userId) ==
  IF LastOwnIndex(tx, userId) = 0
  THEN [tx |-> tx, reply |-> Reply("NOTHING_TO_UNDO"), notes |-> <<>>]
  ELSE [tx |-> deleteLastTransaction(tx, userId), reply |-> Reply("UNDONE"), notes |-> <<>>]


\* ------------------------------------------------------- handleCheckDebt
\* friendAliasMap[f.userId] = f.alias, later entries overwriting earlier ones
FriendAliasMap(friends) ==
  [u \in Users |->
     LET of == SelectSeq(friends, LAMBDA f : f.userId = u) IN
     IF of = <<>> THEN NoName ELSE of[Len(of)].alias]

\* displayName of one row as seen by userId
DisplayName(row, userId, friendAliasMap, aliasCache) ==
  IF row.UserID = userId
  THEN IF row.Debtor # NoName THEN row.Debtor ELSE Chung
  ELSE IF friendAliasMap[row.UserID] # NoName THEN friendAliasMap[row.UserID]
  ELSE IF aliasCache[row.UserID] # NoName THEN aliasCache[row.UserID]
  ELSE AiDo

\* DebtAmount without the inversion of the counterparty's viewpoint
DebtAmount_NoInversion(row, userId) ==
  IF row.Type = "DEBT" THEN row.Amount ELSE 0

\* debtAmount of one row as seen by userId
DebtAmount(row, userId) ==
  IF row.UserID = userId
  THEN IF row.Type = "DEBT" THEN row.Amount ELSE 0
  ELSE IF row.DebtorUserID = userId /\ row.Type = "PAID" THEN row.Amount ELSE 0

\* PaidAmount forgetting the rows the party created itself
PaidAmount_OthersOnly(row, userId) ==
  IF row.UserID # userId /\ row.DebtorUserID = userId /\ row.Type = "DEBT"
  THEN row.Amount ELSE 0

\* paidAmount of one row as seen by userId
PaidAmount(row, userId) ==
  IF row.UserID = userId
  THEN IF row.Type = "PAID" THEN row.Amount ELSE 0
  ELSE IF row.DebtorUserID = userId /\ row.Type = "DEBT" THEN row.Amount ELSE 0

DebtorKey(displayName) ==
  IF normalizeVietnamese(displayName) = <<>> THEN UnknownKey
  ELSE normalizeVietnamese(displayName)

\* the loop over confirmedRows: debtorStats as its entries in insertion order
RECURSIVE DebtorStats(_, _, _, _, _, _)
DebtorStats(confirmedRows, n, userId, filterDebtor, friendAliasMap, aliasCache) ==
  IF n = 0 THEN <<>>
  ELSE LET stats == DebtorStats(confirmedRows, n - 1, userId, filterDebtor,
                                friendAliasMap, aliasCache)
           row == confirmedRows[n]
           displayName == DisplayName(row, userId, friendAliasMap, aliasCache)
           debtorKey == DebtorKey(displayName)
           k == FindIndex({ix \in 1..Len(stats) : stats[ix].key = debtorKey})
       IN IF row.UserID # userId /\ row.DebtorUserID # userId THEN stats
          ELSE IF filterDebtor # NoName
                  /\ normalizeVietnamese(displayName) # normalizeVietnamese(filterDebtor)
          THEN stats
          ELSE IF k = 0
          THEN Append(stats, [key |-> debtorKey, displayName |-> displayName,
                              debt |-> DebtAmount(row, userId),
                              paid |-> PaidAmount(row, userId)])
          ELSE [stats EXCEPT ![k].debt = @ + DebtAmount(row, userId),
                             ![k].paid = @ + PaidAmount(row, userId)]

RECURSIVE SumDebt(_)
SumDebt(stats) == IF stats = <<>> THEN 0 ELSE Head(stats).debt + SumDebt(Tail(stats))

RECURSIVE SumPaid(_)
SumPaid(stats) == IF stats = <<>> THEN 0 ELSE Head(stats).paid + SumPaid(Tail(stats))

\* Array.prototype.sort((a, b) => b.balance - a.balance): stable, descending
RECURSIVE SortByBalance(_)
SortByBalance(list) ==
  IF list = <<>> THEN <<>>
  ELSE LET sorted == SortByBalance(SubSeq(list, 1, Len(list) - 1))
           d == list[Len(list)]
           before == SelectSeq(sorted, LAMBDA e : e.balance >= d.balance)
           after == SelectSeq(sorted, LAMBDA e : e.balance < d.balance)
       IN before \o <<d>> \o after

\* ConfirmedRows dropping the rejected rows only
ConfirmedRows_NotRejected(rows) == SelectSeq(rows, LAMBDA r : r.Status # "REJECTED")

\* rows.filter(r => r.Status === 'CONFIRMED')
ConfirmedRows(rows) == SelectSeq(rows, LAMBDA r : r.Status = "CONFIRMED")

\* OwingOnly keeping every counterparty
OwingOnly_All(sortedDebtors) == sortedDebtors

\* sortedDebtors.filter(d => d.balance > 0)
OwingOnly(sortedDebtors) == SelectSeq(sortedDebtors, LAMBDA d : d.balance > 0)

handleCheckDebt(tx, fl, al, userId, filterDebtor, onlyOwing) ==
  LET rows == getRowsByUser(tx, userId)
      confirmedRows == ConfirmedRows(rows)
      friendAliasMap == FriendAliasMap(getLinkedFriends(fl, al, userId))
      aliasCache == buildAliasCache(al)
      debtorStats == DebtorStats(confirmedRows, Len(confirmedRows), userId, filterDebtor,
                                 friendAliasMap, aliasCache)
      totalBalance == SumDebt(debtorStats) - SumPaid(debtorStats)
      filterKey == normalizeVietnamese(filterDebtor)
      k == FindIndex({ix \in 1..Len(debtorStats) : debtorStats[ix].key = filterKey})
      detail == IF k = 0 THEN [name |-> filterDebtor, balance |-> 0]
                ELSE [name |-> IF debtorStats[k].displayName # NoName
                               THEN debtorStats[k].displayName ELSE filterDebtor,
                      balance |-> debtorStats[k].debt - debtorStats[k].paid]
      entries == [i \in 1..Len(debtorStats) |->
                    [name |-> IF debtorStats[i].displayName # NoName
                              THEN debtorStats[i].displayName ELSE debtorStats[i].key,
                     balance |-> debtorStats[i].debt - debtorStats[i].paid]]
      sorted == SortByBalance(entries)
      sortedDebtors == IF onlyOwing THEN OwingOnly(sorted) ELSE sorted
  IN IF confirmedRows = <<>> THEN Reply("NO_TRANSACTIONS")
     ELSE IF debtorStats = <<>>
     THEN IF filterDebtor # NoName THEN Reply("NOT_FOUND_FOR") ELSE Reply("NO_TRANSACTIONS")
     ELSE IF filterDebtor # NoName THEN ReplyList("DETAIL", <<detail>>, totalBalance)
     ELSE IF sortedDebtors = <<>> THEN Reply("NOBODY_OWES")
     ELSE ReplyList(IF onlyOwing THEN "OWING" ELSE "SUMMARY",
                    SelectSeq(sortedDebtors, LAMBDA d : d.balance # 0 \/ ~onlyOwing),
                    totalBalance)


\* ------------------------------------------------------- peer linking
createShareCode(fl, userId, code) ==
  Append(fl, [UserID_A |-> "", UserID_B |-> userId, AliasOfBForA |-> NoName,
              AliasOfAForB |-> NoName, Code |-> code, Status |-> "PENDING"])

\* handleCreateShareCode without the test of the alias
handleCreateShareCode_NoAliasTest(fl, al, userId, code) ==
  [fl |-> createShareCode(fl, userId, code), reply |-> ReplyCode("SHARE_CODE", code),
   notes |-> <<>>]

handleCreateShareCode(fl, al, userId, code) ==
  IF getAliasByUserId(al, userId) = NoName
  THEN [fl |-> fl, reply |-> Reply("NEED_ALIAS"), notes |-> <<>>]
  ELSE [fl |-> createShareCode(fl, userId, code), reply |-> ReplyCode("SHARE_CODE", code),
        notes |-> <<>>]

\* activateFriendLink refusing an expired code without marking its row
activateFriendLink_NoExpiryMark(fl, code, userId, aliasForFriend, expired) ==
  LET i == FindIndex({ix \in 1..Len(fl) : fl[ix].Code = code /\ fl[ix].Status = "PENDING"})
      friendUserId == fl[i].UserID_B
  IN IF i = 0 THEN [fl |-> fl, success |-> FALSE, kind |-> "INVALID_CODE", friendUserId |-> ""]
     ELSE IF expired
     THEN [fl |-> fl, success |-> FALSE, kind |-> "CODE_EXPIRED", friendUserId |-> ""]
     ELSE IF friendUserId = userId
     THEN [fl |-> fl, success |-> FALSE, kind |-> "SELF_LINK", friendUserId |-> ""]
     ELSE IF \E j \in 1..Len(fl) : IsActiveLink(fl[j], userId, friendUserId)
     THEN [fl |-> fl, success |-> FALSE, kind |-> "ALREADY_LINKED", friendUserId |-> ""]
     ELSE [fl |-> [fl EXCEPT ![i].UserID_A = userId, ![i].AliasOfBForA = aliasForFriend,
                             ![i].Status = "ACTIVE"],
           success |-> TRUE, kind |-> "LINKED", friendUserId |-> friendUserId]

\* activateFriendLink without the test for an existing link
activateFriendLink_NoExistingTest(fl, code, userId, aliasForFriend, expired) ==
  LET i == FindIndex({ix \in 1..Len(fl) : fl[ix].Code = code /\ fl[ix].Status = "PENDING"})
      friendUserId == fl[i].UserID_B
  IN IF i = 0 THEN [fl |-> fl, success |-> FALSE, kind |-> "INVALID_CODE", friendUserId |-> ""]
     ELSE IF expired
     THEN [fl |-> [fl EXCEPT ![i].Status = "EXPIRED"], success |-> FALSE,
           kind |-> "CODE_EXPIRED", friendUserId |-> ""]
     ELSE IF friendUserId = userId
     THEN [fl |-> fl, success |-> FALSE, kind |-> "SELF_LINK", friendUserId |-> ""]
     ELSE [fl |-> [fl EXCEPT ![i].UserID_A = userId, ![i].AliasOfBForA = aliasForFriend,
                             ![i].Status = "ACTIVE"],
           success |-> TRUE, kind |-> "LINKED", friendUserId |-> friendUserId]

\* activateFriendLink looking for the code in the rows of every status
activateFriendLink_AnyStatus(fl, code, userId, aliasForFriend, expired) ==
  LET i == FindIndex({ix \in 1..Len(fl) : fl[ix].Code = code})
      friendUserId == fl[i].UserID_B
  IN IF i = 0 THEN [fl |-> fl, success |-> FALSE, kind |-> "INVALID_CODE", friendUserId |-> ""]
     ELSE IF expired
     THEN [fl |-> [fl EXCEPT ![i].Status = "EXPIRED"], success |-> FALSE,
           kind |-> "CODE_EXPIRED", friendUserId |-> ""]
     ELSE IF friendUserId = userId
     THEN [fl |-> fl, success |-> FALSE, kind |-> "SELF_LINK", friendUserId |-> ""]
     ELSE IF \E j \in 1..Len(fl) : IsActiveLink(fl[j], userId, friendUserId)
     THEN [fl |-> fl, success |-> FALSE, kind |-> "ALREADY_LINKED", friendUserId |-> ""]
     ELSE [fl |-> [fl EXCEPT ![i].UserID_A = userId, ![i].AliasOfBForA = aliasForFriend,
                             ![i].Status = "ACTIVE"],
           success |-> TRUE, kind |-> "LINKED", friendUserId |-> friendUserId]

\* expired: new Date() > ExpiresAt of the row found
activateFriendLink(fl, code, userId, aliasForFriend, expired) ==
  LET i == FindIndex({ix \in 1..Len(fl) : fl[ix].Code = code /\ fl[ix].Status = "PENDING"})
      friendUserId == fl[i].UserID_B
  IN IF i = 0 THEN [fl |-> fl, success |-> FALSE, kind |-> "INVALID_CODE", friendUserId |-> ""]
     ELSE IF expired
     THEN [fl |-> [fl EXCEPT ![i].Status = "EXPIRED"], success |-> FALSE,
           kind |-> "CODE_EXPIRED", friendUserId |-> ""]
     ELSE IF friendUserId = userId
     THEN [fl |-> fl, success |-> FALSE, kind |-> "SELF_LINK", friendUserId |-> ""]
     ELSE IF \E j \in 1..Len(fl) : IsActiveLink(fl[j], userId, friendUserId)
     THEN [fl |-> fl, success |-> FALSE, kind |-> "ALREADY_LINKED", friendUserId |-> ""]
     ELSE [fl |-> [fl EXCEPT ![i].UserID_A = userId, ![i].AliasOfBForA = aliasForFriend,
                             ![i].Status = "ACTIVE"],
           success |-> TRUE, kind |-> "LINKED", friendUserId |-> friendUserId]

handleLinkFriend(fl, code, userId, alias, expired) ==
  LET result == activateFriendLink(fl, code, userId, alias, expired) IN
  [fl |-> result.fl, reply |-> ReplyCode(result.kind, code),
   notes |-> IF result.success /\ result.friendUserId # ""
             THEN <<Note(result.friendUserId, "LINK_NOTICE", code)>> ELSE <<>>]

\* ------------------------------------------------------------ handleMessage
Op(op, user, code, name, flag) ==
  [op |-> op, user |-> user, code |-> code, name |-> name, flag |-> flag]

\* getFacebookProfile is called for a party without alias only: the outcomes
\* of the lookup (TRUE: a profile with a first name came back)
LookupOutcomes(userId) ==
  IF getAliasByUserId(aliases, userId) = NoName /\ FirstName[userId] # NoName
  THEN BOOLEAN ELSE {FALSE}

\* the greeting is never sent
Greeting_Never(auto, userId) == <<>>

\* the greeting handleMessage sends after a first-contact auto-naming
Greeting(auto, userId) ==
  IF auto.alias # NoName THEN <<Note(userId, "GREETING", "")>> ELSE <<>>

Init ==
  /\ transactions = <<>>
  /\ aliases = <<>>
  /\ friendLinks = <<>>
  /\ clock = 0
  /\ lastOp = Op("NONE", "", "", NoName, FALSE)
  /\ response = Reply("NONE")
  /\ outbox = <<>>
  /\ decided = {}
  /\ tasks = [t \in Tasks |-> Idle]

\* `alias <name>`
SetAlias(userId, alias, profileOk) ==
  LET auto == autoSetAliasFromFacebook(aliases, userId, profileOk)
      result == setAlias(auto.table, userId, alias)
  IN /\ aliases' = result.table
     /\ lastOp' = Op("SET_ALIAS", userId, "", alias, FALSE)
     /\ response' = Reply(IF result.success THEN "ALIAS_SET" ELSE "ALIAS_TAKEN")
     /\ outbox' = Greeting(auto, userId)
     /\ UNCHANGED <<transactions, friendLinks, clock, decided, tasks>>

\* `sharecode`
CreateShareCode(userId, code, profileOk) ==
  LET auto == autoSetAliasFromFacebook(aliases, userId, profileOk)
      result == handleCreateShareCode(friendLinks, auto.table, userId, code)
  IN /\ Len(friendLinks) < MaxLinks
     /\ aliases' = auto.table
     /\ friendLinks' = result.fl
     /\ lastOp' = Op("CREATE_SHARE_CODE", userId, "", NoName, FALSE)
     /\ response' = result.reply
     /\ outbox' = Greeting(auto, userId) \o result.notes
     /\ UNCHANGED <<transactions, clock, decided, tasks>>

\* `link <code> <name>`
LinkFriend(userId, code, alias, expired, profileOk) ==
  LET auto == autoSetAliasFromFacebook(aliases, userId, profileOk)
      result == handleLinkFriend(friendLinks, code, userId, alias, expired)
  IN /\ aliases' = auto.table
     /\ friendLinks' = result.fl
     /\ lastOp' = Op("LINK_FRIEND", userId, code, alias, expired)
     /\ response' = result.reply
     /\ outbox' = Greeting(auto, userId) \o result.notes
     /\ UNCHANGED <<transactions, clock, decided, tasks>>

\* `no <amount> [@name] [note]`
AddDebt(userId, amount, debtor, content, newCode, profileOk) ==
  LET auto == autoSetAliasFromFacebook(aliases, userId, profileOk)
      result == handleAddDebt(transactions, friendLinks, auto.table, clock + 1, userId,
                              amount, debtor, content, newCode)
  IN /\ clock < MaxTx
     /\ (newCode # NoCode) = result.coded
     /\ aliases' = auto.table
     /\ transactions' = result.tx
     /\ clock' = IF result.tx = transactions THEN clock ELSE clock + 1
     /\ lastOp' = Op("DEBT", userId, "", debtor, FALSE)
     /\ response' = result.reply
     /\ outbox' = Greeting(auto, userId) \o result.notes
     /\ UNCHANGED <<friendLinks, decided, tasks>>

\* `tra <amount> [@name] [note]`
RepayDebt(userId, amount, debtor, content, newCode, profileOk) ==
  LET auto == autoSetAliasFromFacebook(aliases, userId, profileOk)
      result == handleRepayDebt(transactions, friendLinks, auto.table, clock + 1, userId,
                                amount, debtor, content, newCode)
  IN /\ clock < MaxTx
     /\ (newCode # NoCode) = result.coded
     /\ aliases' = auto.table
     /\ transactions' = result.tx
     /\ clock' = IF result.tx = transactions THEN clock ELSE clock + 1
     /\ lastOp' = Op("PAID", userId, "", debtor, FALSE)
     /\ response' = result.reply
     /\ outbox' = Greeting(auto, userId) \o result.notes
     /\ UNCHANGED <<friendLinks, decided, tasks>>

\* `ok <code>`, or the quick-reply button (which skips the auto-naming, as
\* a failed profile lookup does)
ConfirmDebt(userId, code, profileOk) ==
  LET auto == autoSetAliasFromFacebook(aliases, userId, profileOk)
      result == handleConfirmDebt(transactions, userId, code)
  IN /\ aliases' = auto.table
     /\ transactions' = result.tx
     /\ lastOp' = Op("CONFIRM_DEBT", userId, code, NoName, FALSE)
     /\ response' = result.reply
     /\ outbox' = Greeting(auto, userId) \o result.notes
     /\ decided' = IF result.tx = transactions THEN decided ELSE decided \cup {code}
     /\ UNCHANGED <<friendLinks, clock, tasks>>

\* `huy <code>`, or the quick-reply button
RejectDebt(userId, code, profileOk) ==
  LET auto == autoSetAliasFromFacebook(aliases, userId, profileOk)
      result == handleRejectDebt(transactions, userId, code)
  IN /\ aliases' = auto.table
     /\ transactions' = result.tx
     /\ lastOp' = Op("REJECT_DEBT", userId, code, NoName, FALSE)
     /\ response' = result.reply
     /\ outbox' = Greeting(auto, userId) \o result.notes
     /\ decided' = IF result.tx = transactions THEN decided ELSE decided \cup {code}
     /\ UNCHANGED <<friendLinks, clock, tasks>>

\* `xoa` / `undo`
Undo(userId, profileOk) ==
  LET auto == autoSetAliasFromFacebook(aliases, userId, profileOk)
      result == handleUndo(transactions, userId)
  IN /\ aliases' = auto.table
     /\ transactions' = result.tx
     /\ lastOp' = Op("UNDO", userId, "", NoName, FALSE)
     /\ response' = result.reply
     /\ outbox' = Greeting(auto, userId)
     /\ UNCHANGED <<friendLinks, clock, decided, tasks>>

\* `check [@name | conno]`
CheckDebt(userId, filterDebtor, onlyOwing, profileOk) ==
  LET auto == autoSetAliasFromFacebook(aliases, userId, profileOk) IN
  /\ ~(filterDebtor # NoName /\ onlyOwing)
  /\ aliases' = auto.table
  /\ lastOp' = Op("CHECK", userId, "", filterDebtor, onlyOwing)
  /\ response' = handleCheckDebt(transactions, friendLinks, auto.table, userId,
                                 filterDebtor, onlyOwing)
  /\ outbox' = Greeting(auto, userId)
  /\ UNCHANGED <<transactions, friendLinks, clock, decided, tasks>>

\* the commands that read and write the FriendLinks and Aliases sheets only
NextDirectory ==
  \E userId \in Users :
    \E profileOk \in LookupOutcomes(userId) :
      \/ \E alias \in AliasInputs : SetAlias(userId, alias, profileOk)
      \/ \E code \in Codes : CreateShareCode(userId, code, profileOk)
      \/ \E code \in Codes, alias \in LinkNameInputs, expired \in BOOLEAN :
           LinkFriend(userId, code, alias, expired, profileOk)

\* the commands that write the Transactions sheet
NextLedger ==
  \E userId \in Users :
    \E profileOk \in LookupOutcomes(userId) :
      \/ \E amount \in AmountInputs, debtor \in DebtorInputs, content \in ContentInputs,
            newCode \in Codes \cup {NoCode} :
           \/ AddDebt(userId, amount, debtor, content, newCode, profileOk)
           \/ RepayDebt(userId, amount, debtor, content, newCode, profileOk)
      \/ \E code \in Codes :
           \/ ConfirmDebt(userId, code, profileOk)
           \/ RejectDebt(userId, code, profileOk)
      \/ Undo(userId, profileOk)

NextCheck ==
  \E userId \in Users :
    \E profileOk \in LookupOutcomes(userId) :
      \E filterDebtor \in FilterInputs, onlyOwing \in BOOLEAN :
        CheckDebt(userId, filterDebtor, onlyOwing, profileOk)

\* The sheets after u2's first message (auto-named "Bao"), u1 `alias An`,
\* u2 `sharecode` (K1) and u1 `link K1 Bao`; u3 has not written yet.
InitLedger ==
  /\ transactions = <<>>
  /\ aliases = <<[UserID |-> "u2", Alias |-> Bao], [UserID |-> "u1", Alias |-> An]>>
  /\ friendLinks = <<[UserID_A |-> "u1", UserID_B |-> "u2", AliasOfBForA |-> Bao,
                      AliasOfAForB |-> NoName, Code |-> "K1", Status |-> "ACTIVE"]>>
  /\ clock = 0
  /\ lastOp = Op("LINK_FRIEND", "u1", "K1", Bao, FALSE)
  /\ response = ReplyCode("LINKED", "K1")
  /\ outbox = <<Note("u2", "LINK_NOTICE", "K1")>>
  /\ decided = {}
  /\ tasks = [t \in Tasks |-> Idle]

SpecDirectory == Init /\ [][NextDirectory]_vars

SpecLedger == InitLedger /\ [][NextLedger]_vars

SpecLedgerCheck == InitLedger /\ [][NextLedger \/ NextCheck]_vars

\* ------------------------------------------ decisions, await by await
\* handleConfirmDebt / handleRejectDebt up to the await of updateDebtStatus:
\* findDebtByCode reads the sheet, the tests run on what was read.  A test
\* that fails ends the handler; otherwise it goes on holding the row it read.
DecideRead(t, userId, code, newStatus, okKind, noteKind) ==
  LET i == findDebtByCode(transactions, code)
      seen == Decide(transactions, userId, code, newStatus, okKind, noteKind)
      failure == IF seen.reply.kind \in {"NOT_FOUND", "ALREADY_PROCESSED", "NOT_AUTHORIZED"}
                 THEN seen.reply.kind ELSE ""
      cmd == Op(IF newStatus = "CONFIRMED" THEN "CONFIRM_DEBT" ELSE "REJECT_DEBT",
                userId, code, NoName, FALSE)
  IN /\ tasks[t] = Idle
     /\ IF failure # ""
        THEN /\ lastOp' = cmd
             /\ response' = Reply(failure)
             /\ outbox' = <<>>
             /\ UNCHANGED tasks
        ELSE /\ tasks' = [tasks EXCEPT ![t] =
                            [pc |-> "save", cmd |-> cmd, row |-> transactions[i].Date,
                             creator |-> transactions[i].UserID, newStatus |-> newStatus,
                             okKind |-> okKind, noteKind |-> noteKind]]
             /\ UNCHANGED <<lastOp, response, outbox>>
     /\ UNCHANGED <<transactions, aliases, friendLinks, clock, decided>>

\* updateDebtStatus: row.set('Status', newStatus); row.save() on the row
\* object read before, then the notification and the reply
DecideWrite(t) ==
  LET task == tasks[t]
      j == FindIndex({ix \in 1..Len(transactions) : transactions[ix].Date = task.row})
  IN /\ task.pc = "save"
     /\ j # 0
     /\ transactions' = updateDebtStatus(transactions, j, task.newStatus)
     /\ lastOp' = task.cmd
     /\ response' = ReplyCode(task.okKind, task.cmd.code)
     /\ outbox' = <<Note(task.creator, task.noteKind, task.cmd.code)>>
     /\ decided' = decided \cup {task.cmd.code}
     /\ tasks' = [tasks EXCEPT ![t] = Idle]
     /\ UNCHANGED <<aliases, friendLinks, clock>>

\* two handlers at most in flight, on the sheet InitDecideRace describes
NextDecideRace ==
  \/ \E t \in Tasks, userId \in Users, code \in Codes :
       \/ DecideRead(t, userId, code, "CONFIRMED", "CONFIRM_OK", "WAS_CONFIRMED")
       \/ DecideRead(t, userId, code, "REJECTED", "REJECT_OK", "WAS_REJECTED")
  \/ \E t \in Tasks : DecideWrite(t)

\* InitLedger after u1 `no 1 @Bảo com` (PENDING, code K1) and u1 `tra 2 com`
\* (CONFIRMED, no code)
InitDecideRace ==
  LET first == handleAddDebt(<<>>, friendLinks, aliases, 1, "u1", 1, BaoAccent,
                             <<"c", "o", "m">>, "K1")
      second == handleRepayDebt(first.tx, friendLinks, aliases, 2, "u1", 2, NoName,
                                <<"c", "o", "m">>, NoCode)
  IN /\ aliases = <<[UserID |-> "u2", Alias |-> Bao], [UserID |-> "u1", Alias |-> An]>>
     /\ friendLinks = <<[UserID_A |-> "u1", UserID_B |-> "u2", AliasOfBForA |-> Bao,
                         AliasOfAForB |-> NoName, Code |-> "K1", Status |-> "ACTIVE"]>>
     /\ transactions = second.tx
     /\ clock = 2
     /\ lastOp = Op("PAID", "u1", "", NoName, FALSE)
     /\ response = second.reply
     /\ outbox = second.notes
     /\ decided = {}
     /\ tasks = [t \in Tasks |-> Idle]

SpecDecideRace == InitDecideRace /\ [][NextDecideRace]_vars

\* ---------------------------------------------- aliases, await by await
\* handleMessage of one message, up to the end of getAliasByUserId in
\* autoSetAliasFromFacebook.  The message is `alias <name>`, or (alias =
\* NoName) a command that touches no sheet, such as `help`.
MessageStart(t, userId, alias, profileOk) ==
  LET named == getAliasByUserId(aliases, userId) # NoName
      skip == named \/ ~profileOk
  IN /\ tasks[t] = Idle
     /\ skip => alias # NoName
     /\ tasks' = [tasks EXCEPT ![t] =
                    [pc |-> IF skip THEN "set" ELSE "generate", user |-> userId,
                     name |-> IF skip THEN alias ELSE NoName, auto |-> ~skip,
                     alias |-> alias, greeted |-> FALSE, target |-> 0]]
     /\ UNCHANGED <<transactions, aliases, friendLinks, clock, lastOp, response, outbox,
                    decided>>

\* generateUniqueAlias: one read of the Aliases sheet
GenerateAlias(t) ==
  /\ tasks[t].pc = "generate"
  /\ tasks' = [tasks EXCEPT ![t].pc = "set",
                            ![t].name = generateUniqueAlias(aliases, FirstName[tasks[t].user])]
  /\ UNCHANGED <<transactions, aliases, friendLinks, clock, lastOp, response, outbox,
                 decided>>

\* what handleMessage does once the auto-naming is over: the `alias` command
\* if the message is one, the reply otherwise
AfterAutoName(task, greeted) ==
  IF task.alias # NoName
  THEN [task EXCEPT !.pc = "set", !.name = task.alias, !.auto = FALSE, !.greeted = greeted]
  ELSE Idle

\* setAlias up to its await of save / addRow: one read of the Aliases sheet,
\* the test of the name, the choice of the row
SetAliasRead(t) ==
  LET task == tasks[t]
      j == existingRow(aliases, task.user)
      taken == ~setAlias(aliases, task.user, task.name).success
      finished == taken /\ (~task.auto \/ task.alias = NoName)
  IN /\ task.pc = "set"
     /\ tasks' = [tasks EXCEPT ![t] =
                    IF ~taken THEN [task EXCEPT !.pc = "save", !.target = j]
                    ELSE IF task.auto THEN AfterAutoName(task, FALSE)
                    ELSE Idle]
     /\ IF finished
        THEN /\ lastOp' = Op(IF task.auto THEN "HELP" ELSE "SET_ALIAS", task.user, "",
                             task.alias, FALSE)
             /\ response' = Reply(IF task.auto THEN "HELP" ELSE "ALIAS_TAKEN")
             /\ outbox' = IF task.greeted THEN <<Note(task.user, "GREETING", "")>> ELSE <<>>
        ELSE UNCHANGED <<lastOp, response, outbox>>
     /\ UNCHANGED <<transactions, aliases, friendLinks, clock, decided>>

\* setAlias: existingRow.set('Alias', alias); save() on the row read before,
\* or addRow when no row of the party was read
SetAliasWrite(t) ==
  LET task == tasks[t]
      finished == ~task.auto \/ task.alias = NoName
  IN /\ task.pc = "save"
     /\ task.target = 0 => Len(aliases) < MaxAliasRows
     /\ aliases' = IF task.target # 0
                   THEN [aliases EXCEPT ![task.target].Alias = task.name]
                   ELSE Append(aliases, [UserID |-> task.user, Alias |-> task.name])
     /\ tasks' = [tasks EXCEPT ![t] = IF task.auto THEN AfterAutoName(task, TRUE) ELSE Idle]
     /\ IF finished
        THEN /\ lastOp' = Op(IF task.auto THEN "HELP" ELSE "SET_ALIAS", task.user, "",
                             task.alias, FALSE)
             /\ response' = Reply(IF task.auto THEN "HELP" ELSE "ALIAS_SET")
             /\ outbox' = IF task.auto \/ task.greeted
                          THEN <<Note(task.user, "GREETING", "")>> ELSE <<>>
        ELSE UNCHANGED <<lastOp, response, outbox>>
     /\ UNCHANGED <<transactions, friendLinks, clock, decided>>

NextAliasRace ==
  \/ \E t \in Tasks, userId \in Users, alias \in AliasInputs \cup {NoName},
        profileOk \in BOOLEAN :
       /\ profileOk => FirstName[userId] # NoName
       /\ MessageStart(t, userId, alias, profileOk)
  \/ \E t \in Tasks : GenerateAlias(t)
  \/ \E t \in Tasks : SetAliasRead(t)
  \/ \E t \in Tasks : SetAliasWrite(t)

SpecAliasRace == Init /\ [][NextAliasRace]_vars

\* ------------------------------------------------ links, await by await
\* handleLinkFriend -> activateFriendLink up to its await of row.save(): one
\* read of the FriendLinks sheet and the tests on what was read
LinkRead(t, userId, code, alias, expired) ==
  LET result == activateFriendLink(friendLinks, code, userId, alias, expired)
      i == FindIndex({ix \in 1..Len(friendLinks) :
                        friendLinks[ix].Code = code /\ friendLinks[ix].Status = "PENDING"})
      cmd == Op("LINK_FRIEND", userId, code, alias, expired)
  IN /\ tasks[t] = Idle
     /\ IF result.kind \in {"CODE_EXPIRED", "LINKED"}
        THEN /\ tasks' = [tasks EXCEPT ![t] =
                            [pc |-> "saveLink", cmd |-> cmd, row |-> i, kind |-> result.kind]]
             /\ UNCHANGED <<lastOp, response, outbox>>
        ELSE /\ lastOp' = cmd
             /\ response' = ReplyCode(result.kind, code)
             /\ outbox' = <<>>
             /\ UNCHANGED tasks
     /\ UNCHANGED <<transactions, aliases, friendLinks, clock, decided>>

\* activateFriendLink: row.set(...); row.save() on the row read before, then
\* the notification of handleLinkFriend
LinkWrite(t) ==
  LET task == tasks[t]
      i == task.row
  IN /\ task.pc = "saveLink"
     /\ friendLinks' = IF task.kind = "CODE_EXPIRED"
                       THEN [friendLinks EXCEPT ![i].Status = "EXPIRED"]
                       ELSE [friendLinks EXCEPT ![i].UserID_A = task.cmd.user,
                                                ![i].AliasOfBForA = task.cmd.name,
                                                ![i].Status = "ACTIVE"]
     /\ lastOp' = task.cmd
     /\ response' = ReplyCode(task.kind, task.cmd.code)
     /\ outbox' = IF task.kind = "LINKED"
                  THEN <<Note(friendLinks[i].UserID_B, "LINK_NOTICE", task.cmd.code)>>
                  ELSE <<>>
     /\ tasks' = [tasks EXCEPT ![t] = Idle]
     /\ UNCHANGED <<transactions, aliases, clock, decided>>

\* createDirectFriendLink
createDirectFriendLink(fl, al, userIdA, userIdB, aliasOfBForA) ==
  IF \E j \in 1..Len(fl) : IsActiveLink(fl[j], userIdA, userIdB)
  THEN [fl |-> fl, alreadyLinked |-> TRUE]
  ELSE [fl |-> Append(fl, [UserID_A |-> userIdA, UserID_B |-> userIdB,
                           AliasOfBForA |-> aliasOfBForA,
                           AliasOfAForB |-> getAliasByUserId(al, userIdA),
                           Code |-> "AUTO", Status |-> "ACTIVE"]),
        alreadyLinked |-> FALSE]

\* the quick reply CONFIRM_LINK_AND_DEBT, up to the await of addRow in
\* createDirectFriendLink: one read of the FriendLinks sheet
DirectLinkRead(t, userId, targetUserId, targetAlias, commandType) ==
  LET seen == createDirectFriendLink(friendLinks, aliases, userId, targetUserId, targetAlias)
  IN /\ tasks[t] = Idle
     /\ tasks' = [tasks EXCEPT ![t] =
                    [pc |-> IF seen.alreadyLinked THEN "debt" ELSE "addLink",
                     user |-> userId, target |-> targetUserId, name |-> targetAlias,
                     type |-> commandType, linked |-> FALSE]]
     /\ UNCHANGED <<transactions, aliases, friendLinks, clock, lastOp, response, outbox,
                    decided>>

\* createDirectFriendLink: getAliasByUserId, addRow
DirectLinkWrite(t) ==
  LET task == tasks[t] IN
  /\ task.pc = "addLink"
  /\ Len(friendLinks) < MaxLinks
  /\ friendLinks' = Append(friendLinks,
                           [UserID_A |-> task.user, UserID_B |-> task.target,
                            AliasOfBForA |-> task.name,
                            AliasOfAForB |-> getAliasByUserId(aliases, task.user),
                            Code |-> "AUTO", Status |-> "ACTIVE"])
  /\ tasks' = [tasks EXCEPT ![t].pc = "debt", ![t].linked = TRUE]
  /\ UNCHANGED <<transactions, aliases, clock, lastOp, response, outbox, decided>>

\* the rest of the quick reply: handleAddDebt / handleRepayDebt with the
\* target's name, amount and note of the payload
DirectLinkDebt(t, amount, content, newCode) ==
  LET task == tasks[t]
      result == RecordEntry(transactions, friendLinks, aliases, clock + 1, task.type,
                            task.user, amount, task.name, content, newCode)
  IN /\ task.pc = "debt"
     /\ clock < MaxTx
     /\ (newCode # NoCode) = result.coded
     /\ transactions' = result.tx
     /\ clock' = IF result.tx = transactions THEN clock ELSE clock + 1
     /\ lastOp' = Op("CONFIRM_LINK_AND_DEBT", task.user, "", task.name, FALSE)
     /\ response' = result.reply
     /\ outbox' = (IF task.linked THEN <<Note(task.user, "LINKED", "")>> ELSE <<>>)
                  \o result.notes
     /\ tasks' = [tasks EXCEPT ![t] = Idle]
     /\ UNCHANGED <<aliases, friendLinks, decided>>

\* handlers in flight: one `link` command and one quick reply
NextLinkRace ==
  \/ \E userId \in Users, code \in Codes, alias \in LinkNameInputs, expired \in BOOLEAN :
       LinkRead("t1", userId, code, alias, expired)
  \/ LinkWrite("t1")
  \/ \E userId \in Users, targetUserId \in Users, alias \in LinkNameInputs,
        commandType \in {"DEBT", "PAID"} :
       DirectLinkRead("t2", userId, targetUserId, alias, commandType)
  \/ DirectLinkWrite("t2")
  \/ \E newCode \in Codes \cup {NoCode} : DirectLinkDebt("t2", 1, <<"c", "o", "m">>, newCode)

\* The sheets after u2's first message (auto-named "Bao"), u1 `alias An` and
\* u2 `sharecode`
InitLinkRace ==
  /\ transactions = <<>>
  /\ aliases = <<[UserID |-> "u2", Alias |-> Bao], [UserID |-> "u1", Alias |-> An]>>
  /\ friendLinks = createShareCode(<<>>, "u2", "K1")
  /\ clock = 0
  /\ lastOp = Op("CREATE_SHARE_CODE", "u2", "", NoName, FALSE)
  /\ response = ReplyCode("SHARE_CODE", "K1")
  /\ outbox = <<>>
  /\ decided = {}
  /\ tasks = [t \in Tasks |-> Idle]

SpecLinkRace == InitLinkRace /\ [][NextLinkRace]_vars

\* two `link` commands in flight
NextRedeemRace ==
  \/ \E t \in Tasks, userId \in Users, code \in Codes, alias \in LinkNameInputs,
        expired \in BOOLEAN : LinkRead(t, userId, code, alias, expired)
  \/ \E t \in Tasks : LinkWrite(t)

\* The sheets after u2's first message (auto-named "Bao"), u1 `alias An` and
\* u2 `sharecode` twice
InitRedeemRace ==
  /\ transactions = <<>>
  /\ aliases = <<[UserID |-> "u2", Alias |-> Bao], [UserID |-> "u1", Alias |-> An]>>
  /\ friendLinks = createShareCode(createShareCode(<<>>, "u2", "K1"), "u2", "K2")
  /\ clock = 0
  /\ lastOp = Op("CREATE_SHARE_CODE", "u2", "", NoName, FALSE)
  /\ response = ReplyCode("SHARE_CODE", "K2")
  /\ outbox = <<>>
  /\ decided = {}
  /\ tasks = [t \in Tasks |-> Idle]

SpecRedeemRace == InitRedeemRace /\ [][NextRedeemRace]_vars

\* ------------------------------------------------- friends by their index
\* counterparties typed as `@N`
IndexInputs == {<<"0">>, <<"1">>, <<"2">>, <<"3">>}

\* 'Không tên', shown for an entry without name
KhongTen == <<"K", "h", "o", "n", "g", " ", "t", "e", "n">>

\* handleListFriends: the names of getLinkedFriends, numbered from 1
handleListFriends(fl, al, userId) ==
  LET friends == getLinkedFriends(fl, al, userId) IN
  [reply |-> ReplyList("FRIENDS",
                       [i \in 1..Len(friends) |->
                          IF friends[i].alias # NoName THEN friends[i].alias ELSE KhongTen],
                       0),
   notes |-> <<>>]

\* `friends`
ListFriends(userId, profileOk) ==
  LET auto == autoSetAliasFromFacebook(aliases, userId, profileOk)
      result == handleListFriends(friendLinks, auto.table, userId)
  IN /\ aliases' = auto.table
     /\ lastOp' = Op("LIST_FRIENDS", userId, "", NoName, FALSE)
     /\ response' = result.reply
     /\ outbox' = Greeting(auto, userId) \o result.notes
     /\ UNCHANGED <<transactions, friendLinks, clock, decided, tasks>>

NextIndex ==
  \E userId \in Users :
    \E profileOk \in LookupOutcomes(userId) :
      \/ \E amount \in AmountInputs, debtor \in IndexInputs, content \in ContentInputs,
            newCode \in Codes \cup {NoCode} :
           \/ AddDebt(userId, amount, debtor, content, newCode, profileOk)
           \/ RepayDebt(userId, amount, debtor, content, newCode, profileOk)
      \/ ListFriends(userId, profileOk)

\* rows of the FriendLinks sheet after a redemption: A redeemed B's code and
\* calls B "Bao"
Redeemed(a, b, code) ==
  [UserID_A |-> a, UserID_B |-> b, AliasOfBForA |-> Bao, AliasOfAForB |-> NoName,
   Code |-> code, Status |-> "ACTIVE"]

\* FriendLinks sheets that `sharecode` and `link` of u1, u2 and u3 leave
IndexLinks ==
  { <<Redeemed("u1", "u2", "K1")>>,
    <<Redeemed("u1", "u2", "K1"), Redeemed("u3", "u2", "K2")>>,
    <<Redeemed("u1", "u2", "K1"), Redeemed("u3", "u1", "K2")>>,
    <<Redeemed("u3", "u2", "K1"), Redeemed("u3", "u1", "K2")>> }

\* u2 was auto-named "Bao", u1 sent `alias An`, u3 (whose profile has no
\* first name) has no alias; then the links of IndexLinks were made
InitIndex ==
  /\ transactions = <<>>
  /\ aliases = <<[UserID |-> "u2", Alias |-> Bao], [UserID |-> "u1", Alias |-> An]>>
  /\ friendLinks \in IndexLinks
  /\ clock = 0
  /\ lastOp = Op("LINK_FRIEND", friendLinks[Len(friendLinks)].UserID_A,
                 friendLinks[Len(friendLinks)].Code, Bao, FALSE)
  /\ response = ReplyCode("LINKED", friendLinks[Len(friendLinks)].Code)
  /\ outbox = <<Note(friendLinks[Len(friendLinks)].UserID_B, "LINK_NOTICE",
                     friendLinks[Len(friendLinks)].Code)>>
  /\ decided = {}
  /\ tasks = [t \in Tasks |-> Idle]

SpecIndex == InitIndex /\ [][NextIndex]_vars

\* ------------------------------------------------------------ parseAmount
\* An amount is the pair <<millions, units>> of its value
\* millions * 10^6 + units, with units < 10^6.
Million == 1000000

\* number * multiplier for the three multipliers of parseAmount
Scale(number, multiplier) ==
  IF multiplier = 1 THEN <<number \div Million, number % Million>>
  ELSE IF multiplier = 1000 THEN <<number \div 1000, (number % 1000) * 1000>>
  ELSE <<number, 0>>

\* result > 1000000000000
AboveCeiling(amount) == amount[1] > Million \/ (amount[1] = Million /\ amount[2] > 0)

EndsWith(s, suffix) ==
  Len(s) >= Len(suffix) /\ SubSeq(s, Len(s) - Len(suffix) + 1, Len(s)) = suffix

RECURSIVE Trim(_)
Trim(s) ==
  IF s # <<>> /\ s[1] = " " THEN Trim(Tail(s))
  ELSE IF s # <<>> /\ s[Len(s)] = " " THEN Trim(SubSeq(s, 1, Len(s) - 1))
  ELSE s

\* parseFloat on a text without '.', 'e' and 'I': an optional sign and the
\* longest run of digits that follows; {} is NaN.  The sign is kept apart
\* from the magnitude.
parseFloat(s) ==
  LET signed == s # <<>> /\ s[1] \in {"-", "+"}
      body == IF signed THEN Tail(s) ELSE s
      n == CHOOSE k \in 0..Len(body) :
             /\ \A i \in 1..k : body[i] \in Digits
             /\ k = Len(body) \/ body[k + 1] \notin Digits
  IN IF n = 0 THEN {}
     ELSE {[negative |-> signed /\ s[1] = "-", magnitude |-> ParseInt(SubSeq(body, 1, n))]}

\* the compound <a>k<b> read with <b> as tens
Compound_Tens(mainPart, decimalPart) == Scale(mainPart * 1000 + decimalPart * 10, 1)

\* mainPart * 1000 + decimalPart * 100
Compound(mainPart, decimalPart) == Scale(mainPart * 1000 + decimalPart * 100, 1)

\* parseAmount: {} is null, {amount} a result
parseAmount(amountStr) ==
  LET lowered == [i \in 1..Len(amountStr) |-> ToLowerChar(amountStr[i])]
      cleaned == Trim(SelectSeq(lowered, LAMBDA c : c \notin {",", ".", "d-"}))
      \* the index of the k of /k\d+$/, 0 when the pattern does not match
      kAt == FindIndex({p \in 1..Len(cleaned) - 1 :
                          /\ cleaned[p] = "k"
                          /\ \A q \in p + 1..Len(cleaned) : cleaned[q] \in Digits})
      compound == kAt > 1 /\ \A q \in 1..kAt - 1 : cleaned[q] \in Digits
      multiplier == IF EndsWith(cleaned, <<"t", "r">>)
                       \/ EndsWith(cleaned, <<"t", "r", "i", "e", "u">>) THEN Million
                    ELSE IF kAt # 0 THEN 1
                    ELSE IF EndsWith(cleaned, <<"k">>) THEN 1000
                    ELSE IF EndsWith(cleaned, <<"m">>) THEN Million
                    ELSE 1
      rest == IF EndsWith(cleaned, <<"t", "r", "i", "e", "u">>)
              THEN SubSeq(cleaned, 1, Len(cleaned) - 5)
              ELSE IF EndsWith(cleaned, <<"t", "r">>) THEN SubSeq(cleaned, 1, Len(cleaned) - 2)
              ELSE IF kAt # 0 THEN cleaned
              ELSE IF EndsWith(cleaned, <<"k">>) \/ EndsWith(cleaned, <<"m">>)
              THEN SubSeq(cleaned, 1, Len(cleaned) - 1)
              ELSE cleaned
      number == parseFloat(rest)
      value == CHOOSE x \in number : TRUE
      result == Scale(value.magnitude, multiplier)
  IN IF amountStr = <<>> THEN {}
     ELSE IF ~EndsWith(cleaned, <<"t", "r">>) /\ ~EndsWith(cleaned, <<"t", "r", "i", "e", "u">>)
             /\ compound
     THEN {Compound(ParseInt(SubSeq(cleaned, 1, kAt - 1)),
                    ParseInt(SubSeq(cleaned, kAt + 1, Len(cleaned))))}
     ELSE IF number = {} THEN {}
     ELSE IF value.negative \/ value.magnitude = 0 THEN {}
     ELSE IF AboveCeiling(result) THEN {}
     ELSE {result}

\* characters an amount token is made of
AmountChars == {"0", "1", "5", "k", "K", "m", "t", "r", "a", "b", "c", "-", "."}

RECURSIVE TextsUpTo(_)
TextsUpTo(n) ==
  IF n = 0 THEN {<<>>}
  ELSE LET shorter == TextsUpTo(n - 1)
       IN shorter \cup {Append(s, c) : s \in {x \in shorter : Len(x) = n - 1}, c \in AmountChars}

\* one call of parseAmount on the token the state holds
ParseAmount ==
  LET result == parseAmount(lastOp.name) IN
  /\ lastOp.op = "TOKEN"
  /\ lastOp' = [lastOp EXCEPT !.op = "PARSE_AMOUNT"]
  /\ response' = IF result = {} THEN Reply("INVALID")
                 ELSE ReplyList("AMOUNT", CHOOSE x \in result : TRUE, 0)
  /\ UNCHANGED <<transactions, aliases, friendLinks, clock, outbox, decided, tasks>>

NextAmount == ParseAmount

InitAmount ==
  /\ transactions = <<>>
  /\ aliases = <<>>
  /\ friendLinks = <<>>
  /\ clock = 0
  /\ lastOp \in {Op("TOKEN", "", "", text, FALSE) : text \in TextsUpTo(MaxAmountLen)}
  /\ response = Reply("NONE")
  /\ outbox = <<>>
  /\ decided = {}
  /\ tasks = [t \in Tasks |-> Idle]

SpecAmount == InitAmount /\ [][NextAmount]_vars

\* ------------------------------------------- parseCommandSync: DEBT, PAID
\* the words of the two patterns; "o+." is the letter of `nợ`, "a?" the
\* letter of `trả`
DebtWords == {<<"n", "o">>, <<"n", "o+.">>}
PaidWords == {<<"t", "r", "a">>, <<"t", "r", "a?">>}

\* 'Không có nội dung'
KhongCoNoiDung == <<"K", "h", "o^", "n", "g", " ", "c", "o'", " ", "n", "o^.", "i", " ",
                    "d", "u", "n", "g">>

\* the index of the last character of the run of non-blank characters that
\* starts at from (from - 1 when there is none)
WordEnd(s, from) ==
  LET stops == {p \in from..Len(s) : s[p] = " "} IN
  IF stops = {} THEN Len(s) ELSE FindIndex(stops) - 1

\* the index of the first non-blank character at or after from
\* (Len(s) + 1 when there is none)
SkipBlanks(s, from) ==
  LET starts == {p \in from..Len(s) : s[p] # " "} IN
  IF starts = {} THEN Len(s) + 1 ELSE FindIndex(starts)

\* text.match(/^(w1|w2)\s+(\S+)\s*(.*)$/i) for the words w1, w2 of one
\* pattern: {} when the text does not match, else the groups 2 and 3
MatchWordAmountRest(text, words) ==
  LET lowered == [i \in 1..Len(text) |-> ToLowerChar(text[i])]
      heads == {w \in words : Len(text) > Len(w) /\ SubSeq(lowered, 1, Len(w)) = w}
      word == CHOOSE w \in heads : TRUE
      tokenStart == SkipBlanks(text, Len(word) + 1)
      tokenEnd == WordEnd(text, tokenStart)
  IN IF heads = {} THEN {}
     ELSE IF text[Len(word) + 1] # " " \/ tokenStart > Len(text) THEN {}
     ELSE {[token |-> SubSeq(text, tokenStart, tokenEnd),
            rest |-> SubSeq(text, SkipBlanks(text, tokenEnd + 1), Len(text))]}

\* name.replace(/_/g, ' ')
UnderscoresToSpaces(name) == [i \in 1..Len(name) |-> IF name[i] = "_" THEN " " ELSE name[i]]

\* parseDebtorAndContent keeping the underscores of the name
parseDebtorAndContent_KeepUnderscores(remainder) ==
  LET trimmed == Trim(remainder)
      marked == Len(trimmed) >= 2 /\ trimmed[1] = "@" /\ trimmed[2] # " "
      nameEnd == WordEnd(trimmed, 2)
  IN IF remainder = <<>> THEN [debtor |-> {}, content |-> <<>>]
     ELSE IF marked
     THEN [debtor |-> {Trim(SubSeq(trimmed, 2, nameEnd))},
           content |-> Trim(SubSeq(trimmed, nameEnd + 1, Len(trimmed)))]
     ELSE [debtor |-> {}, content |-> trimmed]

\* parseDebtorAndContent: debtor is {} for null, {name} otherwise
parseDebtorAndContent(remainder) ==
  LET trimmed == Trim(remainder)
      \* trimmed.match(/^@(\S+)\s*(.*)$/)
      marked == Len(trimmed) >= 2 /\ trimmed[1] = "@" /\ trimmed[2] # " "
      nameEnd == WordEnd(trimmed, 2)
  IN IF remainder = <<>> THEN [debtor |-> {}, content |-> <<>>]
     ELSE IF marked
     THEN [debtor |-> {Trim(UnderscoresToSpaces(SubSeq(trimmed, 2, nameEnd)))},
           content |-> Trim(SubSeq(trimmed, nameEnd + 1, Len(trimmed)))]
     ELSE [debtor |-> {}, content |-> trimmed]

\* `if (amount)`, `if (!amount)`: null and 0 are not amounts
IsAmount(result) == result # {} /\ result # {<<0, 0>>}

\* the result of a parse: {} is null
Intent(intent, amount, debtor, content) ==
  {[intent |-> intent, amount |-> amount, debtor |-> debtor,
    content |-> IF content = <<>> THEN KhongCoNoiDung ELSE content]}

\* parseCommandSync on a text that none of the patterns before debtRegex and
\* none after paidRegex matches (their first words are other words): the
\* DEBT and the PAID pattern
parseCommandSync(text) ==
  LET debtMatch == MatchWordAmountRest(text, DebtWords)
      paidMatch == MatchWordAmountRest(text, PaidWords)
      debt == CHOOSE m \in debtMatch : TRUE
      paid == CHOOSE m \in paidMatch : TRUE
  IN IF debtMatch # {} /\ IsAmount(parseAmount(debt.token))
     THEN Intent("DEBT", CHOOSE a \in parseAmount(debt.token) : TRUE,
                 parseDebtorAndContent(debt.rest).debtor,
                 parseDebtorAndContent(debt.rest).content)
     ELSE IF paidMatch # {} /\ IsAmount(parseAmount(paid.token))
     THEN Intent("PAID", CHOOSE a \in parseAmount(paid.token) : TRUE,
                 parseDebtorAndContent(paid.rest).debtor,
                 parseDebtorAndContent(paid.rest).content)
     ELSE {}

\* the messages parsed: a first word, one or two blanks, a token and, after
\* one blank, a remainder; `parts` keeps the three pieces of the text
FirstWords == DebtWords \cup PaidWords \cup {<<"N", "O">>, <<"n", "a">>}
AmountTokens == {<<"5", "k">>, <<"0">>, <<"a", "b">>, <<"0", "k", "0">>}
RestChars == {"@", "_", "a", " "}
MaxRestLen == 4

RECURSIVE RestsUpTo(_)
RestsUpTo(n) ==
  IF n = 0 THEN {<<>>}
  ELSE LET shorter == RestsUpTo(n - 1)
       IN shorter \cup {Append(s, c) : s \in {x \in shorter : Len(x) = n - 1}, c \in RestChars}

Blanks(n) == [i \in 1..n |-> " "]

Message(word, gap, token, rest) ==
  [op |-> "TEXT", user |-> "u1", code |-> "",
   name |-> word \o Blanks(gap) \o token \o (IF rest = <<>> THEN <<>> ELSE <<" ">> \o rest),
   flag |-> FALSE, parts |-> <<word, token, rest>>]

\* the result of a parse as a reply
ParseReply(result) ==
  IF result = {} THEN Reply("NONE")
  ELSE LET r == CHOOSE x \in result : TRUE
       IN ReplyList(r.intent, <<r.amount, r.debtor, r.content>>, 0)

\* one call of parseCommandSync on the text the state holds
ParseCommandSync ==
  /\ lastOp.op = "TEXT"
  /\ lastOp' = [lastOp EXCEPT !.op = "PARSE_SYNC"]
  /\ response' = ParseReply(parseCommandSync(lastOp.name))
  /\ UNCHANGED <<transactions, aliases, friendLinks, clock, outbox, decided, tasks>>

NextFixed == ParseCommandSync

InitFixed ==
  /\ transactions = <<>>
  /\ aliases = <<>>
  /\ friendLinks = <<>>
  /\ clock = 0
  /\ lastOp \in {Message(word, gap, token, rest) :
                   word \in FirstWords, gap \in {1, 2}, token \in AmountTokens,
                   rest \in RestsUpTo(MaxRestLen)}
  /\ response = Reply("NONE")
  /\ outbox = <<>>
  /\ decided = {}
  /\ tasks = [t \in Tasks |-> Idle]

SpecFixed == InitFixed /\ [][NextFixed]_vars

\* ------------------------------------------------ parseFlexibleDebtOrPaid
\* trimmedText.split(/\s+/) of a trimmed text that is not empty
RECURSIVE SplitWords(_)
SplitWords(s) ==
  IF s = <<>> THEN <<>>
  ELSE <<SubSeq(s, 1, WordEnd(s, 1))>>
       \o SplitWords(SubSeq(s, SkipBlanks(s, WordEnd(s, 1) + 1), Len(s)))

\* text.trim().split(/\s+/): the empty text gives one empty token
Split(text) == IF Trim(text) = <<>> THEN <<<<>>>> ELSE SplitWords(Trim(text))

\* tokens.join(' ')
RECURSIVE Join(_)
Join(tokens) ==
  IF tokens = <<>> THEN <<>>
  ELSE IF Len(tokens) = 1 THEN tokens[1]
  ELSE tokens[1] \o <<" ">> \o Join(Tail(tokens))

isDebtWord(token) == normalizeVietnamese(token) = <<"n", "o">>

isPaidWord(token) == normalizeVietnamese(token) = <<"t", "r", "a">>

\* tokens are numbered from 1: the first index from startIndex on whose
\* token is an amount, 0 when there is none
findFirstAmountIndex(tokens, startIndex) ==
  FindIndex({i \in startIndex..Len(tokens) : IsAmount(parseAmount(tokens[i]))})

\* entries.sort((a, b) => b.tokenCount - a.tokenCount), a stable sort
RECURSIVE ByTokenCount(_, _)
ByTokenCount(entries, count) ==
  IF count = 0 THEN <<>>
  ELSE SelectSeq(entries, LAMBDA e : e.tokenCount = count) \o ByTokenCount(entries, count - 1)

buildFriendNameEntries(friends) ==
  LET named == SelectSeq(friends, LAMBDA f : f.alias # NoName)
      entries == [i \in 1..Len(named) |->
                    [friendUserId |-> named[i].userId, rawName |-> named[i].alias,
                     normalizedName |-> normalizeVietnamese(named[i].alias),
                     tokenCount |-> Len(Split(named[i].alias))]]
      counts == {entries[i].tokenCount : i \in 1..Len(entries)}
  IN IF counts = {} THEN <<>>
     ELSE ByTokenCount(entries, CHOOSE c \in counts : \A d \in counts : d <= c)

\* detectFriendInSpan taking the first of several entries with the name
detectFriendInSpan_FirstOfMany(tokens, start, end, friendNameEntries) ==
  LET spanNormalized == normalizeVietnamese(Join(SubSeq(tokens, start, end)))
      matches == SelectSeq(friendNameEntries, LAMBDA e : e.normalizedName = spanNormalized)
  IN IF start > end \/ start < 1 \/ end > Len(tokens) THEN [kind |-> "none"]
     ELSE IF Len(matches) >= 1 THEN [kind |-> "one", alias |-> matches[1].rawName]
     ELSE [kind |-> "none"]

detectFriendInSpan(tokens, start, end, friendNameEntries) ==
  LET spanNormalized == normalizeVietnamese(Join(SubSeq(tokens, start, end)))
      matches == SelectSeq(friendNameEntries, LAMBDA e : e.normalizedName = spanNormalized)
  IN IF start > end \/ start < 1 \/ end > Len(tokens) THEN [kind |-> "none"]
     ELSE IF Len(matches) = 1 THEN [kind |-> "one", alias |-> matches[1].rawName]
     ELSE IF Len(matches) > 1 THEN [kind |-> "ambiguous"]
     ELSE [kind |-> "none"]

\* tryMatchFriendInTokens trying the shortest spans first
tryMatchFriendInTokens_ShortestFirst(tokens, start, end, friendNameEntries) ==
  LET hits == {x \in (1..end - start + 1) \X (start..end) :
                 /\ x[2] + x[1] - 1 <= end
                 /\ detectFriendInSpan(tokens, x[2], x[2] + x[1] - 1,
                                       friendNameEntries).kind = "one"}
      first == CHOOSE x \in hits :
                 \A y \in hits : x[1] < y[1] \/ (x[1] = y[1] /\ x[2] <= y[2])
  IN IF hits = {} THEN {}
     ELSE {detectFriendInSpan(tokens, first[2], first[2] + first[1] - 1,
                              friendNameEntries).alias}

\* tryMatchFriendInTokens: {} is null, else the name of the first span, in
\* the order of the two loops (len downwards, i upwards), that names one
\* friend
tryMatchFriendInTokens(tokens, start, end, friendNameEntries) ==
  LET hits == {x \in (1..end - start + 1) \X (start..end) :
                 /\ x[2] + x[1] - 1 <= end
                 /\ detectFriendInSpan(tokens, x[2], x[2] + x[1] - 1,
                                       friendNameEntries).kind = "one"}
      first == CHOOSE x \in hits :
                 \A y \in hits : x[1] > y[1] \/ (x[1] = y[1] /\ x[2] <= y[2])
  IN IF hits = {} THEN {}
     ELSE {detectFriendInSpan(tokens, first[2], first[2] + first[1] - 1,
                              friendNameEntries).alias}

\* the note starting after the command word
contentStart_AfterCommand(commandIndex, amountIndex) == commandIndex + 1

\* let contentStart = amountIndex + 1
contentStart(commandIndex, amountIndex) == amountIndex + 1

\* parseFlexibleDebtOrPaid, the tokens numbered from 1
parseFlexibleDebtOrPaid(fl, al, userId, text) ==
  LET tokens == Split(text)
      friendNameEntries == buildFriendNameEntries(getLinkedFriends(fl, al, userId))
      commandIndex == FindIndex({i \in 1..Len(tokens) :
                                   isDebtWord(tokens[i]) \/ isPaidWord(tokens[i])})
      commandType == IF isDebtWord(tokens[commandIndex]) THEN "DEBT" ELSE "PAID"
      amountIndex == findFirstAmountIndex(tokens, commandIndex + 1)
      spanStart == IF commandIndex = 1 THEN 2 ELSE 1
      spanEnd == IF commandIndex = 1 THEN amountIndex - 1 ELSE commandIndex - 1
      friendMatch == tryMatchFriendInTokens(tokens, spanStart, spanEnd, friendNameEntries)
      debtor == IF commandIndex = 1 /\ amountIndex <= 2 THEN {}
                ELSE IF friendMatch # {} THEN friendMatch
                ELSE {Join(SubSeq(tokens, spanStart, spanEnd))}
      content == Trim(Join(SubSeq(tokens, contentStart(commandIndex, amountIndex),
                                  Len(tokens))))
  IN IF Len(tokens) < 2 THEN {}
     ELSE IF commandIndex = 0 THEN {}
     ELSE IF amountIndex = 0 THEN {}
     ELSE Intent(commandType, CHOOSE a \in parseAmount(tokens[amountIndex]) : TRUE,
                 debtor, content)

\* the tokens of the messages scanned: no, nó, tra, Bao, Bảo, Ai, đó, 5k
ScanTokens == {<<"n", "o">>, <<"n", "o'">>, <<"t", "r", "a">>, Bao, BaoAccent,
               <<"A", "i">>, <<"d-", "o'">>, <<"5", "k">>}
MaxTokens == 5

RECURSIVE TokensUpTo(_)
TokensUpTo(n) ==
  IF n = 0 THEN {<<>>}
  ELSE LET shorter == TokensUpTo(n - 1)
       IN shorter \cup {Append(s, c) : s \in {x \in shorter : Len(x) = n - 1}, c \in ScanTokens}

\* the row of the FriendLinks sheet after a redeemed b's code and named b
RedeemedAs(a, b, code, name) == [Redeemed(a, b, code) EXCEPT !.AliasOfBForA = name]

\* FriendLinks sheets that `sharecode` and `link <code> <name>` leave: u1 has
\* no friend, one friend, two friends whose names normalize to the same
\* text, two friends of whom one has a name of two words, a friend that has
\* redeemed u1's code
ScanLinks ==
  { <<>>,
    <<RedeemedAs("u1", "u2", "K1", Bao)>>,
    <<RedeemedAs("u1", "u2", "K1", Bao), RedeemedAs("u1", "u3", "K2", BaoAccent)>>,
    <<RedeemedAs("u1", "u2", "K1", AiDo), RedeemedAs("u1", "u3", "K2", <<"A", "i">>)>>,
    <<RedeemedAs("u1", "u2", "K1", AiDo), RedeemedAs("u1", "u3", "K2", BaoAccent)>>,
    <<RedeemedAs("u2", "u1", "K1", An)>> }

\* one call of parseFlexibleDebtOrPaid on the text the state holds
ParseFlexible ==
  /\ lastOp.op = "TEXT"
  /\ lastOp' = [lastOp EXCEPT !.op = "PARSE_FLEXIBLE"]
  /\ response' = ParseReply(parseFlexibleDebtOrPaid(friendLinks, aliases, lastOp.user,
                                                    lastOp.name))
  /\ UNCHANGED <<transactions, aliases, friendLinks, clock, outbox, decided, tasks>>

NextScan == ParseFlexible

\* u2 was auto-named "Bao" and u1 sent `alias An`
InitScan ==
  /\ transactions = <<>>
  /\ aliases = <<[UserID |-> "u2", Alias |-> Bao], [UserID |-> "u1", Alias |-> An]>>
  /\ friendLinks \in ScanLinks
  /\ clock = 0
  /\ lastOp \in {Op("TEXT", "u1", "", Join(tokens), FALSE) : tokens \in TokensUpTo(MaxTokens)}
  /\ response = Reply("NONE")
  /\ outbox = <<>>
  /\ decided = {}
  /\ tasks = [t \in Tasks |-> Idle]

SpecScan == InitScan /\ [][NextScan]_vars

\* ------------------------------------------- handleMessage: no command
\* parseCommand: the fixed patterns first, then the flexible scan
parseCommand(fl, al, userId, text) ==
  IF parseCommandSync(text) # {} THEN parseCommandSync(text)
  ELSE parseFlexibleDebtOrPaid(fl, al, userId, text)

\* texts sent: `ab`, `no ab`, `Bao 5k` and, parsed as a DEBT, `no 5k`
TextInputs ==
  {Join(tokens) : tokens \in {<<<<"a", "b">>>>, <<<<"n", "o">>, <<"a", "b">>>>,
                              <<Bao, <<"5", "k">>>>, <<<<"n", "o">>, <<"5", "k">>>>}}

\* handleMessage on a text for which parseCommand returns null; lastOp.flag
\* is the outcome of the profile lookup
NotUnderstood(userId, text, profileOk) ==
  LET auto == autoSetAliasFromFacebook(aliases, userId, profileOk) IN
  /\ parseCommand(friendLinks, auto.table, userId, text) = {}
  /\ aliases' = auto.table
  /\ lastOp' = Op("NOT_UNDERSTOOD", userId, "", text, profileOk)
  /\ response' = Reply("NOT_UNDERSTOOD")
  /\ outbox' = Greeting(auto, userId)
  /\ UNCHANGED <<transactions, friendLinks, clock, decided, tasks>>

NextUnknown ==
  \E userId \in Users :
    \E profileOk \in LookupOutcomes(userId) :
      \/ \E text \in TextInputs : NotUnderstood(userId, text, profileOk)
      \/ CreateShareCode(userId, "K1", profileOk)
      \/ AddDebt(userId, 1, Chi, <<"c", "o", "m">>, NoCode, profileOk)

SpecUnknown == Init /\ [][NextUnknown]_vars

\* ------------------------------- writes and notifications, await by await
\* One handler at a time, each await of a write or of a notification a step.
\* handleAddDebt / handleRepayDebt up to the end of `await appendRow(rowData)`;
\* appendOk = FALSE: sheet.addRow throws, appendRow throws again and the
\* catch of handleMessage answers with the error message
AppendEntry(t, type, userId, amount, debtor, content, newCode, appendOk) ==
  LET result == RecordEntry(transactions, friendLinks, aliases, clock + 1, type, userId,
                            amount, debtor, content, newCode)
      cmd == Op(type, userId, "", debtor, FALSE)
  IN /\ \A u \in Tasks : tasks[u] = Idle
     /\ clock < MaxTx
     /\ (newCode # NoCode) = result.coded
     /\ IF result.reply.kind = "INVALID_INDEX" \/ ~appendOk
        THEN /\ lastOp' = cmd
             /\ response' = IF appendOk THEN result.reply ELSE Reply("ERROR")
             /\ outbox' = <<>>
             /\ UNCHANGED <<transactions, clock, tasks>>
        ELSE /\ transactions' = result.tx
             /\ clock' = clock + 1
             /\ IF result.coded
                THEN /\ tasks' = [tasks EXCEPT ![t] =
                                    [pc |-> "notifyDebtor", cmd |-> cmd,
                                     notes |-> result.notes, reply |-> result.reply]]
                     /\ UNCHANGED <<lastOp, response, outbox>>
                ELSE /\ lastOp' = cmd
                     /\ response' = result.reply
                     /\ outbox' = <<>>
                     /\ UNCHANGED tasks
     /\ UNCHANGED <<aliases, friendLinks, decided>>

\* sendMessageWithQuickReplies(debtorUserId, ...) and the reply
NotifyDebtor(t) ==
  /\ tasks[t].pc = "notifyDebtor"
  /\ lastOp' = tasks[t].cmd
  /\ response' = tasks[t].reply
  /\ outbox' = tasks[t].notes
  /\ tasks' = [tasks EXCEPT ![t] = Idle]
  /\ UNCHANGED <<transactions, aliases, friendLinks, clock, decided>>

\* `await updateDebtStatus(debt, ...)`; saveOk = FALSE: row.save() throws,
\* updateDebtStatus returns false and the handler returns its error message
SaveStatus(t, saveOk) ==
  LET task == tasks[t]
      j == FindIndex({ix \in 1..Len(transactions) : transactions[ix].Date = task.row})
  IN /\ task.pc = "save"
     /\ j # 0
     /\ IF saveOk
        THEN /\ transactions' = updateDebtStatus(transactions, j, task.newStatus)
             /\ decided' = decided \cup {task.cmd.code}
             /\ tasks' = [tasks EXCEPT ![t].pc = "notifyCreator"]
             /\ UNCHANGED <<lastOp, response, outbox>>
        ELSE /\ lastOp' = task.cmd
             /\ response' = Reply("SAVE_FAILED")
             /\ outbox' = <<>>
             /\ tasks' = [tasks EXCEPT ![t] = Idle]
             /\ UNCHANGED <<transactions, decided>>
     /\ UNCHANGED <<aliases, friendLinks, clock>>

\* sendMessage(debt.UserID, ...) and the reply
NotifyCreator(t) ==
  LET task == tasks[t] IN
  /\ task.pc = "notifyCreator"
  /\ lastOp' = task.cmd
  /\ response' = ReplyCode(task.okKind, task.cmd.code)
  /\ outbox' = <<Note(task.creator, task.noteKind, task.cmd.code)>>
  /\ tasks' = [tasks EXCEPT ![t] = Idle]
  /\ UNCHANGED <<transactions, aliases, friendLinks, clock, decided>>

NextNotify ==
  \/ \E userId \in Users, debtor \in DebtorInputs, newCode \in Codes \cup {NoCode},
        appendOk \in BOOLEAN :
       \/ AppendEntry("t1", "DEBT", userId, 1, debtor, <<"c", "o", "m">>, newCode, appendOk)
       \/ AppendEntry("t1", "PAID", userId, 1, debtor, <<"c", "o", "m">>, newCode, appendOk)
  \/ NotifyDebtor("t1")
  \/ \E userId \in Users, code \in Codes :
       /\ \A u \in Tasks : tasks[u] = Idle
       /\ \/ DecideRead("t1", userId, code, "CONFIRMED", "CONFIRM_OK", "WAS_CONFIRMED")
          \/ DecideRead("t1", userId, code, "REJECTED", "REJECT_OK", "WAS_REJECTED")
  \/ \E saveOk \in BOOLEAN : SaveStatus("t1", saveOk)
  \/ NotifyCreator("t1")

SpecNotify == InitLedger /\ [][NextNotify]_vars

\* ------------------------------------------------------ handlePendingList
\* one listing entry: type label, amount, creator's name ('Ai đó' when the
\* creator has no alias), note, code
PendingEntry(al, debt) ==
  [Type |-> debt.Type, Amount |-> debt.Amount,
   From |-> IF getAliasByUserId(al, debt.UserID) # NoName
            THEN getAliasByUserId(al, debt.UserID) ELSE AiDo,
   Content |-> debt.Content, DebtCode |-> debt.DebtCode]

handlePendingList(tx, al, userId) ==
  LET pending == getPendingDebtsForUser(tx, userId) IN
  IF Len(pending) = 0
  THEN Reply("NO_PENDING")
  ELSE ReplyList("PENDING_LIST",
                 [i \in 1..Len(pending) |-> PendingEntry(al, pending[i])],
                 Len(pending))

\* `pending`
PendingList(userId, profileOk) ==
  LET auto == autoSetAliasFromFacebook(aliases, userId, profileOk) IN
  /\ aliases' = auto.table
  /\ lastOp' = Op("PENDING_LIST", userId, "", NoName, FALSE)
  /\ response' = handlePendingList(transactions, auto.table, userId)
  /\ outbox' = Greeting(auto, userId)
  /\ UNCHANGED <<transactions, friendLinks, clock, decided, tasks>>

NextPending ==
  \E userId \in Users :
    \E profileOk \in LookupOutcomes(userId) : PendingList(userId, profileOk)

SpecPending == InitLedger /\ [][NextLedger \/ NextPending]_vars

\* --------------------------------- handleMessage: DEBT, PAID from a text
\* the debtor of a parsed command as handleAddDebt / handleRepayDebt test it:
\* null and '' are both falsy
DebtorOf(command) ==
  IF command.debtor = {} THEN NoName ELSE CHOOSE name \in command.debtor : TRUE

\* handleMessage on a text that parseCommand reads as a DEBT or a PAID: the
\* entry is recorded with the label the parse returned.  Amount is the pair
\* parseAmount returns.
TextEntry(userId, text, newCode, profileOk) ==
  /\ clock < MaxTx
  /\ \E auto \in {autoSetAliasFromFacebook(aliases, userId, profileOk)} :
    \E command \in parseCommand(friendLinks, auto.table, userId, text) :
      \E result \in {RecordEntry(transactions, friendLinks, auto.table, clock + 1,
                                 command.intent, userId, command.amount,
                                 DebtorOf(command), command.content, newCode)} :
        /\ (newCode # NoCode) = result.coded
        /\ aliases' = auto.table
        /\ transactions' = result.tx
        /\ clock' = IF result.tx = transactions THEN clock ELSE clock + 1
        /\ lastOp' = Op(command.intent, userId, "", text, FALSE)
        /\ response' = result.reply
        /\ outbox' = Greeting(auto, userId) \o result.notes
        /\ UNCHANGED <<friendLinks, decided, tasks>>

\* the words of the texts sent: no, tra, Bao, Bảo, 5k
EntryTokens == {<<"n", "o">>, <<"t", "r", "a">>, Bao, BaoAccent, <<"5", "k">>}
MaxEntryTokens == 3

EntryTexts ==
  {Join(tokens) : tokens \in UNION {[1..n -> EntryTokens] : n \in 2..MaxEntryTokens}}

NextEntry ==
  \E userId \in Users :
    \E profileOk \in LookupOutcomes(userId) :
      \E text \in EntryTexts, newCode \in Codes \cup {NoCode} :
        TextEntry(userId, text, newCode, profileOk)

\* the sheets of InitScan, no message handled yet
InitEntry ==
  /\ transactions = <<>>
  /\ aliases = <<[UserID |-> "u2", Alias |-> Bao], [UserID |-> "u1", Alias |-> An]>>
  /\ friendLinks \in ScanLinks
  /\ clock = 0
  /\ lastOp = Op("NONE", "u1", "", NoName, FALSE)
  /\ response = Reply("NONE")
  /\ outbox = <<>>
  /\ decided = {}
  /\ tasks = [t \in Tasks |-> Idle]

SpecEntry == InitEntry /\ [][NextEntry]_vars

\* ------------------------------------- DEBT, PAID over a failing row store
\* What the lookups of one command return when the read of the FriendLinks
\* sheet fails: getLinkedFriends returns [] and getFriendUserId null from
\* their catch blocks, and the Aliases sheet is not asked; both are what the
\* lookups return on sheets without rows.  Reads of the Aliases sheet succeed.
LinksRead(linksOk) == IF linksOk THEN friendLinks ELSE <<>>
AliasesRead(linksOk) == IF linksOk THEN aliases ELSE <<>>

\* handleMessage on `no` / `tra` with the outcomes of the store calls of the
\* handler as inputs: linksOk for the reads of FriendLinks (made only when a
\* name was given), appendOk for appendRow (reached only past the index
\* test).  appendOk = FALSE: appendRow throws and the catch of handleMessage
\* sends the error message.  lastOp.flag: a store call failed.
StoreEntry(type, userId, amount, debtor, content, newCode, linksOk, appendOk) ==
  LET result == RecordEntry(transactions, LinksRead(linksOk), AliasesRead(linksOk),
                            clock + 1, type, userId, amount, debtor, content, newCode)
      refused == result.reply.kind = "INVALID_INDEX"
      written == ~refused /\ appendOk
  IN /\ clock < MaxTx
     /\ (newCode # NoCode) = result.coded
     /\ debtor = NoName => linksOk
     /\ refused => appendOk
     /\ transactions' = IF written THEN result.tx ELSE transactions
     /\ clock' = IF written THEN clock + 1 ELSE clock
     /\ lastOp' = Op(type, userId, "", debtor, ~(linksOk /\ appendOk))
     /\ response' = IF refused \/ appendOk THEN result.reply ELSE Reply("ERROR")
     /\ outbox' = IF written THEN result.notes ELSE <<>>
     /\ UNCHANGED <<aliases, friendLinks, decided, tasks>>

NextStore ==
  \E userId \in Users, type \in {"DEBT", "PAID"}, amount \in AmountInputs,
     debtor \in DebtorInputs \cup {One}, content \in ContentInputs,
     newCode \in Codes \cup {NoCode}, linksOk \in BOOLEAN, appendOk \in BOOLEAN :
    StoreEntry(type, userId, amount, debtor, content, newCode, linksOk, appendOk)

SpecStore == InitLedger /\ [][NextStore]_vars

\* ------------------------------------------ POST /webhook: one batch
\* The events of one webhook call, one per task, t1 before t2 in the batch.
\* kind: `no 1 [@Bảo] com` (DEBT), `undo`, `ok K1`, `pending`, a text no
\* pattern matches (TEXT), the quick-reply button '↩️ Undo' (QR_UNDO).
InboundKinds == {"DEBT", "UNDO", "CONFIRM_DEBT", "PENDING_LIST", "TEXT", "QR_UNDO"}

Event(user, kind, name, echo) ==
  [pc |-> "event", user |-> user, kind |-> kind, name |-> name, echo |-> echo,
   reply |-> Reply("NONE")]

Events ==
  {Event(user, kind, name, echo) :
     user \in {"u1", "u2"}, kind \in InboundKinds, name \in {NoName, BaoAccent},
     echo \in BOOLEAN}

\* the events of a batch taken in any order
LoopAt_AnyOrder(t) == tasks[t].pc = "event"

\* the loop reaches the events in order, and awaits the handler of a
\* quick-reply payload and its sendMessage before it goes on
LoopAt(t) ==
  /\ tasks[t].pc = "event"
  /\ t = "t2" => tasks["t1"].pc \notin {"event", "inline", "inlineSend"}

\* where the loop body sends an event: `continue` on an echo, the handler of
\* the payload, or handleMessage, which is called and not awaited
Dispatch(event) ==
  IF event.echo THEN "dropped"
  ELSE IF event.kind = "QR_UNDO" THEN "inline" ELSE "prelude"

Receive(t) ==
  /\ LoopAt(t)
  /\ tasks' = [tasks EXCEPT ![t].pc = Dispatch(tasks[t])]
  /\ UNCHANGED <<transactions, aliases, friendLinks, clock, lastOp, response, outbox, decided>>

\* an exception that nothing catches: the task ends without a message
OnThrow_Unhandled(task) == [task EXCEPT !.pc = "dropped"]

\* the catch of handleMessage: the error message is what gets sent
OnThrow(task) == [task EXCEPT !.pc = "respond", !.reply = Reply("ERROR")]

\* the handler of the payload {type: 'SUGGEST_ACTION', action: 'UNDO'};
\* deleteOk = FALSE: row.delete() throws, the catch around the payload logs
\* and the loop body goes on to handleMessage with the title of the button,
\* which no pattern matches
InlineUndo(t, deleteOk) ==
  LET result == handleUndo(transactions, tasks[t].user) IN
  /\ tasks[t].pc = "inline"
  /\ ~deleteOk => LastOwnIndex(transactions, tasks[t].user) # 0
  /\ transactions' = IF deleteOk THEN result.tx ELSE transactions
  /\ tasks' = [tasks EXCEPT ![t] =
                 IF deleteOk THEN [@ EXCEPT !.pc = "inlineSend", !.reply = result.reply]
                 ELSE [@ EXCEPT !.pc = "prelude", !.kind = "TEXT"]]
  /\ UNCHANGED <<aliases, friendLinks, clock, lastOp, response, outbox, decided>>

\* handleMessage up to parseCommand: autoSetAliasFromFacebook and the greeting
AutoAlias(t, profileOk) ==
  LET auto == autoSetAliasFromFacebook(aliases, tasks[t].user, profileOk) IN
  /\ tasks[t].pc = "prelude"
  /\ aliases' = auto.table
  /\ outbox' = outbox \o Greeting(auto, tasks[t].user)
  /\ tasks' = [tasks EXCEPT ![t].pc = "handle"]
  /\ UNCHANGED <<transactions, friendLinks, clock, lastOp, response, decided>>

\* handleAddDebt past `await getFriendUserId(...)`, for a name that is not a
\* number: the row, appendRow, the notification of a linked debtor, the reply
RecordResolved(tx, date, type, userId, amount, debtor, content, debtorUserId, newCode) ==
  [tx |-> Append(tx, [Date |-> date, UserID |-> userId,
                      Debtor |-> IF debtor # NoName THEN debtor ELSE Chung,
                      Type |-> type, Amount |-> amount, Content |-> content,
                      DebtorUserID |-> debtorUserId,
                      Status |-> IF debtorUserId # "" THEN "PENDING" ELSE "CONFIRMED",
                      DebtCode |-> IF debtorUserId # "" THEN newCode ELSE ""]),
   coded |-> debtorUserId # "",
   reply |-> IF debtorUserId # "" THEN ReplyCode("PENDING_SENT", newCode)
             ELSE Reply("RECORDED"),
   notes |-> IF debtorUserId # "" THEN <<Note(debtorUserId, "NEW_PENDING", newCode)>>
             ELSE <<>>]

\* what getFriendUserId returns to the handler of the event ("": not called)
Resolved(task) ==
  IF task.kind = "DEBT" /\ task.name # NoName
  THEN getFriendUserId(friendLinks, aliases, task.user, task.name) ELSE ""

\* the result of the handler of the command on the sheets as they are
Handled(task, debtorUserId, newCode) ==
  CASE task.kind = "DEBT" ->
         RecordResolved(transactions, clock + 1, "DEBT", task.user, 1, task.name,
                        <<"c", "o", "m">>, debtorUserId, newCode)
    [] task.kind = "UNDO" -> handleUndo(transactions, task.user)
    [] task.kind = "CONFIRM_DEBT" -> handleConfirmDebt(transactions, task.user, "K1")
    [] task.kind = "PENDING_LIST" ->
         [tx |-> transactions,
          reply |-> handlePendingList(transactions, aliases, task.user), notes |-> <<>>]
    [] OTHER -> [tx |-> transactions, reply |-> Reply("NOT_UNDERSTOOD"), notes |-> <<>>]

\* parseCommand and the handler of the command, its notification included;
\* newCode is what generateCode returns (NoCode: not called), writeOk =
\* FALSE: the write of the handler (addRow, delete) throws
Handle(t) ==
  \E task \in {tasks[t]} :
    /\ task.pc = "handle"
    /\ clock < MaxTx
    /\ UNCHANGED <<aliases, friendLinks, lastOp, response>>
    /\ \E debtorUserId \in {Resolved(task)} :
         \E newCode \in {IF debtorUserId # "" THEN "K1" ELSE NoCode} :
           \E result \in {Handled(task, debtorUserId, newCode)} :
             \E writeOk \in BOOLEAN :
               /\ ~writeOk => (result.tx # transactions /\ task.kind \in {"DEBT", "UNDO"})
               /\ transactions' = IF writeOk THEN result.tx ELSE transactions
               /\ clock' = IF writeOk /\ task.kind = "DEBT" THEN clock + 1 ELSE clock
               /\ outbox' = IF writeOk THEN outbox \o result.notes ELSE outbox
               /\ decided' = IF task.kind = "CONFIRM_DEBT" /\ result.tx # transactions
                             THEN decided \cup {"K1"} ELSE decided
               /\ tasks' = [tasks EXCEPT ![t] =
                              IF writeOk
                              THEN [@ EXCEPT !.pc = "respond", !.reply = result.reply]
                              ELSE OnThrow(task)]

\* sendMessage / sendMessageWithQuickReplies to the sender of the event
Respond(t) ==
  /\ tasks[t].pc \in {"respond", "inlineSend"}
  /\ lastOp' = Op(tasks[t].kind, tasks[t].user, "", tasks[t].name, FALSE)
  /\ response' = tasks[t].reply
  /\ tasks' = [tasks EXCEPT ![t].pc = "done"]
  /\ UNCHANGED <<transactions, aliases, friendLinks, clock, outbox, decided>>

TaskStep(t) ==
  \/ Receive(t)
  \/ \E deleteOk \in BOOLEAN : InlineUndo(t, deleteOk)
  \/ \E profileOk \in LookupOutcomes(tasks[t].user) : AutoAlias(t, profileOk)
  \/ Handle(t)
  \/ Respond(t)

NextInbound == \E t \in Tasks : TaskStep(t)

\* the sheets of InitLedger and a batch of two events
InitInbound ==
  /\ transactions = <<>>
  /\ aliases = <<[UserID |-> "u2", Alias |-> Bao], [UserID |-> "u1", Alias |-> An]>>
  /\ friendLinks = <<[UserID_A |-> "u1", UserID_B |-> "u2", AliasOfBForA |-> Bao,
                      AliasOfAForB |-> NoName, Code |-> "K1", Status |-> "ACTIVE"]>>
  /\ clock = 0
  /\ lastOp = Op("LINK_FRIEND", "u1", "K1", Bao, FALSE)
  /\ response = ReplyCode("LINKED", "K1")
  /\ outbox = <<>>
  /\ decided = {}
  /\ tasks \in [Tasks -> {e \in Events : e.name # NoName => e.kind = "DEBT"}]

SpecInbound == InitInbound /\ [][NextInbound]_vars

\* every call of the store and of the transport returns, and the event loop
\* runs every continuation whose call has returned
SpecInboundFair == SpecInbound /\ \A t \in Tasks : WF_vars(TaskStep(t))

\* ------------------------------------------------ a PENDING entry to undo
\* The sheets of InitLedger after u1's `no 1 @Bảo com`: one PENDING row with
\* the code K1, addressed to u2.
InitUndo ==
  LET first == handleAddDebt(<<>>, <<[UserID_A |-> "u1", UserID_B |-> "u2",
                                      AliasOfBForA |-> Bao, AliasOfAForB |-> NoName,
                                      Code |-> "K1", Status |-> "ACTIVE"]>>,
                             <<[UserID |-> "u2", Alias |-> Bao],
                               [UserID |-> "u1", Alias |-> An]>>,
                             1, "u1", 1, BaoAccent, <<"c", "o", "m">>, "K1")
  IN /\ transactions = first.tx
     /\ aliases = <<[UserID |-> "u2", Alias |-> Bao], [UserID |-> "u1", Alias |-> An]>>
     /\ friendLinks = <<[UserID_A |-> "u1", UserID_B |-> "u2", AliasOfBForA |-> Bao,
                         AliasOfAForB |-> NoName, Code |-> "K1", Status |-> "ACTIVE"]>>
     /\ clock = 1
     /\ lastOp = Op("DEBT", "u1", "", BaoAccent, FALSE)
     /\ response = first.reply
     /\ outbox = first.notes
     /\ decided = {}
     /\ tasks = [t \in Tasks |-> Idle]

SpecUndo == InitUndo /\ [][NextLedger]_vars

\* ================================================================ claims
IsDecision(op) == op.op \in {"CONFIRM_DEBT", "REJECT_DEBT"}

\* C1 as stated: a row changes status only from PENDING, only by
\* CONFIRM_DEBT resp. REJECT_DEBT on its code sent by its DebtorUserID, to
\* CONFIRMED resp. REJECTED; every later CONFIRM_DEBT or REJECT_DEBT with the
\* code of a row decided before is answered 'already processed' and changes
\* no row.
C1_EveryLaterAttempt ==
  [][ /\ \A i \in 1..Len(transactions), j \in 1..Len(transactions') :
           ( /\ transactions[i].Date = transactions'[j].Date
             /\ transactions[i].Status # transactions'[j].Status )
           => /\ transactions[i].Status = "PENDING"
              /\ IsDecision(lastOp')
              /\ lastOp'.user = transactions[i].DebtorUserID
              /\ lastOp'.code = transactions[i].DebtCode
              /\ transactions'[j].Status =
                   IF lastOp'.op = "CONFIRM_DEBT" THEN "CONFIRMED" ELSE "REJECTED"
      /\ (IsDecision(lastOp') /\ lastOp'.code \in decided)
         => /\ response'.kind = "ALREADY_PROCESSED"
            /\ transactions' = transactions
    ]_vars

\* C1 amended: the same, the later attempts being answered 'already
\* processed' as long as the decided row is in the sheet; once its creator's
\* UNDO has removed it, an attempt with its code is answered as the rows left
\* decide: 'not found' when no row carries the code.
C1_DecidedOnce ==
  [][ /\ \A i \in 1..Len(transactions), j \in 1..Len(transactions') :
           ( /\ transactions[i].Date = transactions'[j].Date
             /\ transactions[i].Status # transactions'[j].Status )
           => /\ transactions[i].Status = "PENDING"
              /\ IsDecision(lastOp')
              /\ lastOp'.user = transactions[i].DebtorUserID
              /\ lastOp'.code = transactions[i].DebtCode
              /\ transactions'[j].Status =
                   IF lastOp'.op = "CONFIRM_DEBT" THEN "CONFIRMED" ELSE "REJECTED"
      /\ ( /\ IsDecision(lastOp')
           /\ \E i \in 1..Len(transactions) :
                /\ transactions[i].DebtCode = lastOp'.code
                /\ transactions[i].Status \in {"CONFIRMED", "REJECTED"} )
         => /\ response'.kind = "ALREADY_PROCESSED"
            /\ transactions' = transactions
      /\ ( /\ IsDecision(lastOp') /\ lastOp'.code \in decided
           /\ \A i \in 1..Len(transactions) : transactions[i].DebtCode # lastOp'.code )
         => /\ response'.kind = "NOT_FOUND"
            /\ transactions' = transactions
    ]_vars

\* a second attempt by the counterparty itself, answered 'already processed'
C1_Witness ==
  /\ IsDecision(lastOp)
  /\ response.kind = "ALREADY_PROCESSED"
  /\ \E i \in 1..Len(transactions) :
       /\ transactions[i].DebtCode = lastOp.code
       /\ transactions[i].DebtorUserID = lastOp.user
       /\ transactions[i].Status = "REJECTED"

\* the names getLinkedFriends gives for the parties linked to userId
LinkedNames(fl, al, userId) ==
  LET friends == getLinkedFriends(fl, al, userId) IN
  {normalizeVietnamese(friends[i].alias) : i \in {k \in 1..Len(friends) : friends[k].alias # NoName}}

\* C2: a DEBT / PAID command appends a PENDING row, with a code and a
\* DebtorUserID, if and only if the name given is the name of a party linked
\* to the sender by an ACTIVE FriendLink; otherwise the row is CONFIRMED with
\* neither, and nobody else is notified.
C2_PendingIffLinked ==
  [][ ( /\ lastOp'.op \in {"DEBT", "PAID"}
        /\ Len(transactions') = Len(transactions) + 1 )
      => LET row == transactions'[Len(transactions')]
             linked == /\ lastOp'.name # NoName
                       /\ normalizeVietnamese(row.Debtor)
                            \in LinkedNames(friendLinks', aliases', lastOp'.user)
         IN IF linked
            THEN row.Status = "PENDING" /\ row.DebtCode # "" /\ row.DebtorUserID # ""
            ELSE /\ row.Status = "CONFIRMED" /\ row.DebtCode = "" /\ row.DebtorUserID = ""
                 /\ \A k \in 1..Len(outbox') : outbox'[k].to = lastOp'.user
    ]_vars

\* C3: a PENDING row has a DebtorUserID and a DebtCode; a row without
\* DebtorUserID is CONFIRMED and has no DebtCode.
C3_PendingHasCounterparty ==
  \A i \in 1..Len(transactions) :
    /\ transactions[i].Status = "PENDING"
         => transactions[i].DebtorUserID # "" /\ transactions[i].DebtCode # ""
    /\ transactions[i].DebtorUserID = ""
         => transactions[i].Status = "CONFIRMED" /\ transactions[i].DebtCode = ""

C3_Witness ==
  \E i, j \in 1..Len(transactions) :
    /\ transactions[i].Status = "PENDING"
    /\ transactions[j].DebtorUserID = "" /\ transactions[j].Debtor = Chi

\* C8: UNDO by a party that created a row of the sheet succeeds and removes
\* the last row that party created, whatever its status; every other row
\* stays, unchanged and in the same order.
C8_UndoRemovesLastOwn ==
  [][ ( /\ lastOp'.op = "UNDO"
        /\ \/ response'.kind = "UNDONE"
           \/ \E i \in 1..Len(transactions) : transactions[i].UserID = lastOp'.user )
      => \E i \in 1..Len(transactions) :
           /\ response'.kind = "UNDONE"
           /\ transactions[i].UserID = lastOp'.user
           /\ \A j \in (i + 1)..Len(transactions) : transactions[j].UserID # lastOp'.user
           /\ Len(transactions') = Len(transactions) - 1
           /\ \A j \in 1..(i - 1) : transactions'[j] = transactions[j]
           /\ \A j \in (i + 1)..Len(transactions) : transactions'[j - 1] = transactions[j]
    ]_vars

\* after an UNDO, a row of another party that names the sender is still there
C8_Witness ==
  /\ lastOp.op = "UNDO" /\ response.kind = "UNDONE"
  /\ \E i \in 1..Len(transactions) :
       transactions[i].DebtorUserID = lastOp.user /\ transactions[i].UserID # lastOp.user

\* C9: UNDO by a party that created none of the rows answers 'nothing to
\* undo' and leaves the sheet as it is.
C9_NothingToUndo ==
  [][ ( /\ lastOp'.op = "UNDO"
        /\ \A i \in 1..Len(transactions) : transactions[i].UserID # lastOp'.user )
      => response'.kind = "NOTHING_TO_UNDO" /\ transactions' = transactions
    ]_vars

C9_Witness ==
  /\ lastOp.op = "UNDO" /\ response.kind = "NOTHING_TO_UNDO"
  /\ \E i \in 1..Len(transactions) : transactions[i].DebtorUserID = lastOp.user

\* C10 as stated: CONFIRM_DEBT / REJECT_DEBT on an existing code by a party
\* that is not the row's DebtorUserID is answered with the authorization
\* failure and changes nothing, whatever the status of the row.
C10_AlwaysNotAuthorized ==
  [][ ( /\ IsDecision(lastOp')
        /\ findDebtByCode(transactions, lastOp'.code) # 0
        /\ transactions[findDebtByCode(transactions, lastOp'.code)].DebtorUserID # lastOp'.user )
      => response'.kind = "NOT_AUTHORIZED" /\ transactions' = transactions
    ]_vars

\* C10 amended: such a command never changes the sheet; it is answered with
\* the authorization failure when the row is PENDING and with 'already
\* processed' when the row is CONFIRMED or REJECTED.
C10_OthersChangeNothing ==
  [][ ( /\ IsDecision(lastOp')
        /\ findDebtByCode(transactions, lastOp'.code) # 0
        /\ transactions[findDebtByCode(transactions, lastOp'.code)].DebtorUserID # lastOp'.user )
      => /\ transactions' = transactions
         /\ outbox' = <<>>
         /\ response'.kind =
              IF transactions[findDebtByCode(transactions, lastOp'.code)].Status = "PENDING"
              THEN "NOT_AUTHORIZED" ELSE "ALREADY_PROCESSED"
    ]_vars

\* the creator of a PENDING row tried to decide it
C10_Witness ==
  /\ IsDecision(lastOp)
  /\ response.kind = "NOT_AUTHORIZED"
  /\ \E i \in 1..Len(transactions) :
       /\ transactions[i].DebtCode = lastOp.code
       /\ transactions[i].UserID = lastOp.user
       /\ transactions[i].Status = "PENDING"


\* ------------------------------------------------------------- balances
\* the forms of CHECK: plain, `check conno`, `check @name`
CheckForms == {<<f, o>> \in FilterInputs \X BOOLEAN : ~(f # NoName /\ o)}

\* every reply CHECK can give on these sheets
AllViews(tx, fl, al) ==
  [u \in Users |-> [c \in CheckForms |-> handleCheckDebt(tx, fl, al, u, c[1], c[2])]]

TotalOf(tx, fl, al, u) == handleCheckDebt(tx, fl, al, u, NoName, FALSE).total

\* C4: whenever the sheet changes, the replies of CHECK are those computed
\* from the CONFIRMED rows alone;
\* appending a PENDING row or rejecting one changes no reply of any party;
\* confirming a row adds its amount (DEBT) or subtracts it (PAID) in the total
\* of its creator, does the opposite in the total of its counterparty, and
\* changes nothing for anybody else.
C4_OnlyConfirmedCount ==
  [][ /\ transactions' # transactions
           => AllViews(transactions', friendLinks', aliases')
                = AllViews(SelectSeq(transactions', LAMBDA r : r.Status = "CONFIRMED"),
                           friendLinks', aliases')
      /\ response'.kind \in {"PENDING_SENT", "REJECT_OK"}
           => AllViews(transactions', friendLinks', aliases')
                = AllViews(transactions, friendLinks', aliases')
      /\ response'.kind = "CONFIRM_OK"
           => LET r == transactions[findDebtByCode(transactions, lastOp'.code)]
                  signed == IF r.Type = "DEBT" THEN r.Amount ELSE 0 - r.Amount
              IN /\ TotalOf(transactions', friendLinks', aliases', r.UserID)
                      = TotalOf(transactions, friendLinks', aliases', r.UserID) + signed
                 /\ r.DebtorUserID # r.UserID
                      => TotalOf(transactions', friendLinks', aliases', r.DebtorUserID)
                           = TotalOf(transactions, friendLinks', aliases', r.DebtorUserID)
                             - signed
                 /\ \A u \in Users \ {r.UserID, r.DebtorUserID} :
                      AllViews(transactions', friendLinks', aliases')[u]
                        = AllViews(transactions, friendLinks', aliases')[u]
    ]_vars

\* a row was confirmed and counts, while another one is still PENDING
C4_Witness ==
  /\ response.kind = "CONFIRM_OK"
  /\ \E i, j \in 1..Len(transactions) :
       /\ transactions[i].DebtCode = lastOp.code /\ transactions[i].Status = "CONFIRMED"
       /\ TotalOf(transactions, friendLinks, aliases, transactions[i].UserID) # 0
       /\ transactions[j].Status = "PENDING"

\* the name under which party p sees the other side of a row
NameFor(row, p) ==
  DisplayName(row, p, FriendAliasMap(getLinkedFriends(friendLinks, aliases, p)),
              buildAliasCache(aliases))

Visible(row, p) == row.UserID = p \/ row.DebtorUserID = p

\* the balance CHECK reports to p for the counterparty bucket `key`, as a
\* set: empty when the reply has no such line
ReportedBalance(p, key) ==
  LET reply == handleCheckDebt(transactions, friendLinks, aliases, p, NoName, FALSE)
      k == FindIndex({ix \in 1..Len(reply.list) : DebtorKey(reply.list[ix].name) = key})
  IN IF reply.kind # "SUMMARY" \/ k = 0 THEN {} ELSE {reply.list[k].balance}

\* the CONFIRMED rows between a and b
Between(a, b) ==
  {i \in 1..Len(transactions) :
     /\ transactions[i].Status = "CONFIRMED"
     /\ {transactions[i].UserID, transactions[i].DebtorUserID} = {a, b}}

\* the buckets of p in which the rows S fall
KeysOf(S, p) == {DebtorKey(NameFor(transactions[i], p)) : i \in S}

\* the CONFIRMED rows p sees in bucket `key`
InBucket(p, key) ==
  {i \in 1..Len(transactions) :
     /\ transactions[i].Status = "CONFIRMED" /\ Visible(transactions[i], p)
     /\ DebtorKey(NameFor(transactions[i], p)) = key}

\* C5: when the only row between A and B is one CONFIRMED row created by A
\* with DebtorUserID = B, A's balance for B is +Amount for a DEBT and -Amount
\* for a PAID, and B's balance for A is the opposite number; and whenever the
\* rows between A and B are all that A's bucket for B and B's bucket for A
\* hold, the two balances are additive inverses.
C5_NettingSymmetry ==
  /\ \A i \in 1..Len(transactions) :
       LET r == transactions[i]
           A == r.UserID
           B == r.DebtorUserID
           signed == IF r.Type = "DEBT" THEN r.Amount ELSE 0 - r.Amount
       IN ( /\ r.Status = "CONFIRMED" /\ B # "" /\ B # A
            /\ \A j \in 1..Len(transactions) \ {i} :
                 {transactions[j].UserID, transactions[j].DebtorUserID} # {A, B} )
          => /\ ReportedBalance(A, DebtorKey(NameFor(r, A))) = {signed}
             /\ ReportedBalance(B, DebtorKey(NameFor(r, B))) = {0 - signed}
  /\ \A A, B \in Users :
       ( /\ A # B /\ Between(A, B) # {}
         /\ \A key \in KeysOf(Between(A, B), A) : InBucket(A, key) = Between(A, B)
         /\ \A key \in KeysOf(Between(A, B), B) : InBucket(B, key) = Between(A, B) )
       => \A ka \in KeysOf(Between(A, B), A) : \A kb \in KeysOf(Between(A, B), B) :
            \E x \in ReportedBalance(A, ka) : ReportedBalance(B, kb) = {0 - x}

\* the counterparty checked, and sees what it owes for the one row between
\* the two parties, while a second row sits in another bucket
C5_Witness ==
  /\ lastOp.op = "CHECK" /\ lastOp.name = NoName /\ ~lastOp.flag
  /\ response.kind = "SUMMARY"
  /\ Len(transactions) = 2
  /\ \E i \in 1..Len(transactions) :
       /\ transactions[i].Status = "CONFIRMED"
       /\ transactions[i].DebtorUserID = lastOp.user
       /\ transactions[i].UserID # lastOp.user
       /\ transactions[i].Type = "DEBT"
       /\ \A j \in 1..Len(transactions) \ {i} :
            /\ transactions[j].UserID = transactions[i].UserID
            /\ transactions[j].DebtorUserID = ""
       /\ \E k \in 1..Len(response.list) :
            response.list[k].balance = 0 - transactions[i].Amount

RECURSIVE SumAmounts(_)
SumAmounts(S) ==
  IF S = {} THEN 0
  ELSE LET i == CHOOSE x \in S : TRUE IN transactions[i].Amount + SumAmounts(S \ {i})

\* the CONFIRMED rows p created under a label of bucket `key`
OwnRows(p, key, type) ==
  {i \in 1..Len(transactions) :
     /\ transactions[i].Status = "CONFIRMED" /\ transactions[i].Type = type
     /\ transactions[i].UserID = p
     /\ DebtorKey(NameFor(transactions[i], p)) = key}

\* the CONFIRMED rows another party created naming p, that party being in
\* bucket `key` for p
TheirRows(p, key, type) ==
  {i \in 1..Len(transactions) :
     /\ transactions[i].Status = "CONFIRMED" /\ transactions[i].Type = type
     /\ transactions[i].UserID # p /\ transactions[i].DebtorUserID = p
     /\ DebtorKey(NameFor(transactions[i], p)) = key}

ExpectedBalance(p, key) ==
  (SumAmounts(OwnRows(p, key, "DEBT")) + SumAmounts(TheirRows(p, key, "PAID")))
  - (SumAmounts(OwnRows(p, key, "PAID")) + SumAmounts(TheirRows(p, key, "DEBT")))

\* the buckets of p: the keys of the CONFIRMED rows p sees
BucketKeys(p) ==
  {DebtorKey(NameFor(transactions[i], p)) :
     i \in {k \in 1..Len(transactions) :
              transactions[k].Status = "CONFIRMED" /\ Visible(transactions[k], p)}}

RECURSIVE SumBalances(_)
SumBalances(list) ==
  IF list = <<>> THEN 0 ELSE Head(list).balance + SumBalances(Tail(list))

\* C6: the unfiltered CHECK of a party with CONFIRMED rows has one line per
\* bucket, whose balance is (own DEBT + their PAID) - (own PAID + their DEBT)
\* over the CONFIRMED rows of the bucket, and its total is the sum of the lines.
C6_BucketBalance ==
  \A p \in Users :
    LET reply == handleCheckDebt(transactions, friendLinks, aliases, p, NoName, FALSE) IN
    IF BucketKeys(p) = {} THEN reply.kind = "NO_TRANSACTIONS"
    ELSE /\ reply.kind = "SUMMARY"
         /\ Len(reply.list) = Cardinality(BucketKeys(p))
         /\ {DebtorKey(reply.list[k].name) : k \in 1..Len(reply.list)} = BucketKeys(p)
         /\ \A k \in 1..Len(reply.list) :
              reply.list[k].balance = ExpectedBalance(p, DebtorKey(reply.list[k].name))
         /\ reply.total = SumBalances(reply.list)

\* a CHECK whose one line nets a row of the party against a row of the other
C6_Witness ==
  /\ lastOp.op = "CHECK" /\ lastOp.name = NoName /\ ~lastOp.flag
  /\ response.kind = "SUMMARY"
  /\ Len(response.list) = 1
  /\ \E key \in BucketKeys(lastOp.user) :
       /\ OwnRows(lastOp.user, key, "DEBT") # {}
       /\ TheirRows(lastOp.user, key, "DEBT") # {}
       /\ response.list[1].balance = ExpectedBalance(lastOp.user, key)
       /\ response.list[1].balance # 0

\* C7: `check conno` lists exactly the buckets whose balance is strictly
\* positive, largest first, and its total is the total of the unfiltered CHECK
\* of the same sheets; when no bucket is positive it says that nobody owes.
C7_OnlyOwing ==
  \A p \in Users :
    LET all == handleCheckDebt(transactions, friendLinks, aliases, p, NoName, FALSE)
        owing == handleCheckDebt(transactions, friendLinks, aliases, p, NoName, TRUE)
        positive == {key \in BucketKeys(p) : ExpectedBalance(p, key) > 0}
    IN IF BucketKeys(p) = {} THEN owing.kind = "NO_TRANSACTIONS"
       ELSE IF positive = {} THEN owing.kind = "NOBODY_OWES"
       ELSE /\ owing.kind = "OWING"
            /\ Len(owing.list) = Cardinality(positive)
            /\ {DebtorKey(owing.list[k].name) : k \in 1..Len(owing.list)} = positive
            /\ \A k \in 1..Len(owing.list) :
                 owing.list[k].balance = ExpectedBalance(p, DebtorKey(owing.list[k].name))
            /\ \A k \in 1..(Len(owing.list) - 1) :
                 owing.list[k].balance >= owing.list[k + 1].balance
            /\ owing.total = all.total

\* `check conno` listed one of two buckets, the other one being negative
C7_Witness ==
  /\ lastOp.op = "CHECK" /\ lastOp.flag
  /\ response.kind = "OWING"
  /\ Len(response.list) = 1
  /\ Cardinality(BucketKeys(lastOp.user)) = 2
  /\ response.total < 0


\* ---------------------------------------------------------- concurrency
\* C11 as stated: in every interleaving, a row that is CONFIRMED or REJECTED
\* keeps its status for ever.
C11_DecidedIsTerminal ==
  [][ \A i \in 1..Len(transactions), j \in 1..Len(transactions') :
        ( /\ transactions[i].Date = transactions'[j].Date
          /\ transactions[i].Status \in {"CONFIRMED", "REJECTED"} )
        => transactions'[j].Status = transactions[i].Status
    ]_vars

\* C11 as amended: a handler starts its write only for a row it read PENDING
\* (one that reads the row CONFIRMED or REJECTED is refused), and the status
\* of a CONFIRMED or REJECTED row changes only by the write of a handler that
\* read the row before.
C11_DecidedUnlessReadPending ==
  [][ /\ \A t \in Tasks :
           (tasks[t] = Idle /\ tasks'[t] # Idle)
           => \E i \in 1..Len(transactions) :
                /\ transactions[i].Date = tasks'[t].row
                /\ transactions[i].Status = "PENDING"
      /\ \A i \in 1..Len(transactions), j \in 1..Len(transactions') :
           ( /\ transactions[i].Date = transactions'[j].Date
             /\ transactions[i].Status \in {"CONFIRMED", "REJECTED"}
             /\ transactions'[j].Status # transactions[i].Status )
           => \E t \in Tasks : /\ tasks[t] # Idle
                               /\ tasks[t].row = transactions[i].Date
                               /\ tasks'[t] = Idle
    ]_vars

\* a decision was refused on a row that a handler had decided
C11_Witness ==
  /\ lastOp.op \in {"CONFIRM_DEBT", "REJECT_DEBT"}
  /\ response.kind = "ALREADY_PROCESSED"
  /\ \E i \in 1..Len(transactions) :
       /\ transactions[i].DebtCode = lastOp.code
       /\ transactions[i].Status \in {"CONFIRMED", "REJECTED"}
       /\ lastOp.code \in decided

\* C12 as stated: no two rows of the Aliases sheet that belong to different
\* parties carry names that are equal after normalizeVietnamese.
C12_AliasesUnique ==
  \A i, j \in 1..Len(aliases) :
    ( /\ aliases[i].UserID # aliases[j].UserID
      /\ aliases[i].Alias # NoName /\ aliases[j].Alias # NoName )
    => normalizeVietnamese(aliases[i].Alias) # normalizeVietnamese(aliases[j].Alias)

HeldByOther(al, userId, name) ==
  \E i \in 1..Len(al) : /\ al[i].UserID # userId
                        /\ al[i].Alias # NoName
                        /\ normalizeVietnamese(al[i].Alias) = normalizeVietnamese(name)

\* C12 as amended: on a sheet with unique names, a setAlias that reads its
\* name held by a different party is rejected and writes nothing, and a
\* setAlias write keeps the names unique when its name is still not held by
\* a different party at the time of the write.
C12_UniqueUnlessOverlapped ==
  [][ \A t \in Tasks :
        /\ ( /\ tasks[t].pc = "set" /\ tasks'[t] # tasks[t]
             /\ C12_AliasesUnique
             /\ HeldByOther(aliases, tasks[t].user, tasks[t].name) )
           => (aliases' = aliases /\ tasks'[t].pc # "save")
        /\ ( /\ tasks[t].pc = "save" /\ tasks'[t] # tasks[t]
             /\ C12_AliasesUnique
             /\ ~HeldByOther(aliases, tasks[t].user, tasks[t].name) )
           => C12_AliasesUnique'
    ]_vars

\* `alias <name>` was refused while the sheet holds the name for another party
C12_Witness ==
  /\ lastOp.op = "SET_ALIAS"
  /\ response.kind = "ALIAS_TAKEN"
  /\ HeldByOther(aliases, lastOp.user, lastOp.name)

\* C13 as stated: the Aliases sheet holds at most one row per party.
C13_OneRowPerParty ==
  \A i, j \in 1..Len(aliases) : aliases[i].UserID = aliases[j].UserID => i = j

RowsOf(al, userId) == {i \in 1..Len(al) : al[i].UserID = userId}

\* C13 as amended: setAlias chooses the party's row among the rows it reads
\* (none: it appends), and its write keeps one row per party when it updates
\* that row or when the party still has no row at the time of the write.
C13_OneRowUnlessOverlapped ==
  [][ \A t \in Tasks :
        /\ (tasks[t].pc = "set" /\ tasks'[t].pc = "save" /\ C13_OneRowPerParty)
           => RowsOf(aliases, tasks[t].user) = {tasks'[t].target} \ {0}
        /\ ( /\ tasks[t].pc = "save" /\ tasks'[t] # tasks[t]
             /\ C13_OneRowPerParty
             /\ (tasks[t].target # 0 \/ RowsOf(aliases, tasks[t].user) = {}) )
           => /\ C13_OneRowPerParty'
              /\ tasks[t].target # 0 => Len(aliases') = Len(aliases)
    ]_vars

\* a party was auto-named and renamed by the same message: the second
\* setAlias updated the row the first one appended
C13_Witness ==
  /\ lastOp.op = "SET_ALIAS"
  /\ response.kind = "ALIAS_SET"
  /\ \E n \in 1..Len(outbox) : outbox[n].kind = "GREETING"
  /\ \E i \in 1..Len(aliases) : /\ RowsOf(aliases, lastOp.user) = {i}
                                /\ aliases[i].Alias = lastOp.name

\* C14 as stated: for every pair of parties, at most one row of the
\* FriendLinks sheet is ACTIVE between them.
C14_OneActiveLinkPerPair ==
  \A i, j \in 1..Len(friendLinks) :
    ( /\ friendLinks[i].Status = "ACTIVE" /\ friendLinks[j].Status = "ACTIVE"
      /\ {friendLinks[i].UserID_A, friendLinks[i].UserID_B}
           = {friendLinks[j].UserID_A, friendLinks[j].UserID_B} )
    => i = j

ActiveBetween(fl, a, b) ==
  \E j \in 1..Len(fl) : fl[j].Status = "ACTIVE" /\ {fl[j].UserID_A, fl[j].UserID_B} = {a, b}

\* C14 as amended: a linking operation (share code or direct) goes on to its
\* write only when the rows it read hold no ACTIVE link of the pair, and its
\* write keeps at most one ACTIVE link per pair when the pair still has none
\* at the time of the write.
C14_OneLinkUnlessOverlapped ==
  [][ \A t \in Tasks :
        /\ (tasks[t] = Idle /\ tasks'[t].pc = "saveLink" /\ tasks'[t].kind = "LINKED")
           => ~ActiveBetween(friendLinks, tasks'[t].cmd.user,
                             friendLinks[tasks'[t].row].UserID_B)
        /\ (tasks[t] = Idle /\ tasks'[t].pc = "addLink")
           => ~ActiveBetween(friendLinks, tasks'[t].user, tasks'[t].target)
        /\ ( /\ tasks[t].pc = "saveLink" /\ tasks'[t] # tasks[t]
             /\ C14_OneActiveLinkPerPair
             /\ ~ActiveBetween(friendLinks, tasks[t].cmd.user,
                               friendLinks[tasks[t].row].UserID_B) )
           => C14_OneActiveLinkPerPair'
        /\ ( /\ tasks[t].pc = "addLink" /\ tasks'[t] # tasks[t]
             /\ C14_OneActiveLinkPerPair
             /\ ~ActiveBetween(friendLinks, tasks[t].user, tasks[t].target) )
           => C14_OneActiveLinkPerPair'
    ]_vars

\* `link` was refused for a pair that a direct link had joined
C14_Witness ==
  /\ lastOp.op = "LINK_FRIEND"
  /\ response.kind = "ALREADY_LINKED"
  /\ \E i \in 1..Len(friendLinks) :
       /\ friendLinks[i].Code = "AUTO" /\ friendLinks[i].Status = "ACTIVE"
       /\ lastOp.user \in {friendLinks[i].UserID_A, friendLinks[i].UserID_B}
  /\ C14_OneActiveLinkPerPair

RowsWith(fl, code, status) == {i \in 1..Len(fl) : fl[i].Code = code /\ fl[i].Status = status}

ActiveRows(fl) == {i \in 1..Len(fl) : fl[i].Status = "ACTIVE"}

\* the step handles `link <code> <name>`, the message arriving after
\* ExpiresAt of the code's PENDING row: that row becomes EXPIRED, the reply is
\* 'expired', no link becomes ACTIVE
ExpiryStep ==
  ( /\ lastOp'.op = "LINK_FRIEND" /\ lastOp'.flag
    /\ RowsWith(friendLinks, lastOp'.code, "PENDING") # {} )
  => /\ response'.kind = "CODE_EXPIRED"
     /\ \E i \in RowsWith(friendLinks, lastOp'.code, "PENDING") :
          friendLinks' = [friendLinks EXCEPT ![i].Status = "EXPIRED"]
     /\ ActiveRows(friendLinks') = ActiveRows(friendLinks)

\* an EXPIRED row is never written again
ExpiredStays ==
  \A i \in 1..Len(friendLinks) :
    friendLinks[i].Status = "EXPIRED" => friendLinks'[i] = friendLinks[i]

\* C15 as stated: an expired redemption marks the row EXPIRED, is refused and
\* links nobody; every later `link` with the code of an EXPIRED row fails and
\* the row stays EXPIRED.
C15_ExpiredCodeForEver ==
  [][ /\ ExpiryStep
      /\ ExpiredStays
      /\ ( /\ lastOp'.op = "LINK_FRIEND"
           /\ RowsWith(friendLinks, lastOp'.code, "EXPIRED") # {} )
         => /\ response'.kind # "LINKED"
            /\ ActiveRows(friendLinks') = ActiveRows(friendLinks)
    ]_vars

\* C15 as amended: the same, the later redemptions being those of a code
\* that no PENDING row carries (a share code issued later with the same
\* value can be redeemed).
C15_ExpiredCodeUnlessReissued ==
  [][ /\ ExpiryStep
      /\ ExpiredStays
      /\ ( /\ lastOp'.op = "LINK_FRIEND"
           /\ RowsWith(friendLinks, lastOp'.code, "EXPIRED") # {}
           /\ RowsWith(friendLinks, lastOp'.code, "PENDING") = {} )
         => /\ response'.kind = "INVALID_CODE"
            /\ friendLinks' = friendLinks
    ]_vars

\* a code was redeemed again after its row had become EXPIRED, and refused
C15_Witness ==
  /\ lastOp.op = "LINK_FRIEND" /\ ~lastOp.flag
  /\ response.kind = "INVALID_CODE"
  /\ RowsWith(friendLinks, lastOp.code, "EXPIRED") # {}

\* C16: right after a successful `link <code> <name>` by party A, the row of
\* the code is ACTIVE with UserID_A = A, AliasOfBForA = <name> and a non-empty
\* AliasOfAForB (A's alias when A has one).
C16_BothNamesFixed ==
  (lastOp.op = "LINK_FRIEND" /\ response.kind = "LINKED")
  => \E i \in RowsWith(friendLinks, lastOp.code, "ACTIVE") :
       /\ friendLinks[i].UserID_A = lastOp.user
       /\ friendLinks[i].AliasOfBForA = lastOp.name
       /\ friendLinks[i].AliasOfAForB # NoName
       /\ getAliasByUserId(aliases, lastOp.user) # NoName
          => friendLinks[i].AliasOfAForB = getAliasByUserId(aliases, lastOp.user)

\* C17 as stated: `sharecode` from a party that had no alias when the message
\* arrived is refused ('set an alias first') and adds no FriendLinks row.
C17_NoAliasNoCode ==
  [][ ( /\ lastOp'.op = "CREATE_SHARE_CODE"
        /\ getAliasByUserId(aliases, lastOp'.user) = NoName )
      => (response'.kind = "NEED_ALIAS" /\ friendLinks' = friendLinks)
    ]_vars

\* C17 as amended: `sharecode` from a party that still has no alias after the
\* first-contact auto-naming of that message (the profile lookup gave no
\* first name) is refused and adds no FriendLinks row.
C17_NoAliasAfterAutoNaming ==
  [][ ( /\ lastOp'.op = "CREATE_SHARE_CODE"
        /\ getAliasByUserId(aliases', lastOp'.user) = NoName )
      => (response'.kind = "NEED_ALIAS" /\ friendLinks' = friendLinks)
    ]_vars

\* `sharecode` was refused for a party without alias
C17_Witness ==
  /\ lastOp.op = "CREATE_SHARE_CODE"
  /\ response.kind = "NEED_ALIAS"
  /\ getAliasByUserId(aliases, lastOp.user) = NoName
  /\ \A i \in 1..Len(friendLinks) : friendLinks[i].UserID_B # lastOp.user

\* C18: after a DEBT or PAID command whose counterparty name is the alias of
\* exactly one other party, an ACTIVE row of the FriendLinks sheet joins the
\* creator and that party (created without a share code when they were not
\* linked, with the name given as AliasOfBForA and the creator's alias as
\* AliasOfAForB).
C18_DirectLinkOnDebt ==
  LET target == getUserIdByAlias(aliases, lastOp.name) IN
  ( /\ lastOp.op \in {"DEBT", "PAID"}
    /\ lastOp.name # NoName
    /\ response.kind \notin {"INVALID_INDEX", "ERROR"}
    /\ target \notin {"", lastOp.user} )
  => ActiveBetween(friendLinks, lastOp.user, target)

\* C19: a DEBT or PAID command with the counterparty `@N` appends a row for
\* the N-th entry of getLinkedFriends (the list `friends` shows, in its
\* order) when 1 <= N <= number of entries, and otherwise answers with the
\* invalid-index error and appends nothing.
C19_IndexResolves ==
  [][ LET friends == getLinkedFriends(friendLinks, aliases', lastOp'.user)
          n == ParseInt(lastOp'.name)
      IN /\ ( /\ lastOp'.op \in {"DEBT", "PAID"}
              /\ lastOp'.name # NoName /\ IsNumeric(lastOp'.name) )
            => IF n < 1 \/ n > Len(friends)
               THEN response'.kind = "INVALID_INDEX" /\ transactions' = transactions
               ELSE /\ Len(transactions') = Len(transactions) + 1
                    /\ transactions'[Len(transactions')].Debtor = friends[n].alias
         /\ lastOp'.op = "LIST_FRIENDS"
            => /\ Len(response'.list) = Len(friends)
               /\ \A i \in 1..Len(friends) :
                    friends[i].alias # NoName => response'.list[i] = friends[i].alias
    ]_vars

DigitText(s) == s # <<>> /\ \A i \in 1..Len(s) : s[i] \in Digits

\* the token is <n> followed by the suffix, <n> a digit string
Numeral(text, suffix) ==
  EndsWith(text, suffix) /\ DigitText(SubSeq(text, 1, Len(text) - Len(suffix)))

NumeralOf(text, suffix) == ParseInt(SubSeq(text, 1, Len(text) - Len(suffix)))

\* C20: parseAmount gives n*1000 for <n>k, n*1,000,000 for <n>m and <n>tr,
\* a*1000 + b*100 for <a>k<b> and n for the bare <n> (n > 0 in the forms
\* with one numeral); "50k" is 50000, "1tr" 1000000, "50k5" 50500, and "0",
\* "-5k", "abc" are invalid.
C20_AmountGrammar ==
  lastOp.op = "PARSE_AMOUNT" =>
    LET text == lastOp.name
        value == response.list
        valid == response.kind = "AMOUNT"
    IN /\ (Numeral(text, <<"k">>) /\ NumeralOf(text, <<"k">>) > 0)
          => /\ valid
             /\ value[1] * 1000 + value[2] \div 1000 = NumeralOf(text, <<"k">>)
             /\ value[2] % 1000 = 0
       /\ \A suffix \in {<<"m">>, <<"t", "r">>} :
            (Numeral(text, suffix) /\ NumeralOf(text, suffix) > 0)
            => (valid /\ value = <<NumeralOf(text, suffix), 0>>)
       /\ \A p \in 2..Len(text) - 1 :
            ( /\ text[p] = "k" /\ DigitText(SubSeq(text, 1, p - 1))
              /\ DigitText(SubSeq(text, p + 1, Len(text))) )
            => /\ valid
               /\ value[1] * Million + value[2]
                    = ParseInt(SubSeq(text, 1, p - 1)) * 1000
                      + ParseInt(SubSeq(text, p + 1, Len(text))) * 100
       /\ (DigitText(text) /\ ParseInt(text) > 0)
          => (valid /\ value[1] * Million + value[2] = ParseInt(text))
       /\ text = <<"5", "0", "k">> => (valid /\ value = <<0, 50000>>)
       /\ text = <<"1", "t", "r">> => (valid /\ value = <<1, 0>>)
       /\ text = <<"5", "0", "k", "5">> => (valid /\ value = <<0, 50500>>)
       /\ text \in {<<"0">>, <<"-", "5", "k">>, <<"a", "b", "c">>} => ~valid

\* "50k5" was parsed
C20_Witness ==
  /\ lastOp.op = "PARSE_AMOUNT"
  /\ lastOp.name = <<"5", "0", "k", "5">>
  /\ response.kind = "AMOUNT"
  /\ response.list = <<0, 50500>>

\* C21: whatever the token, parseAmount gives invalid or an amount between 1
\* and 10^12.
C21_AmountRange ==
  (lastOp.op = "PARSE_AMOUNT" /\ response.kind = "AMOUNT")
  => /\ response.list[1] >= 0 /\ response.list[2] >= 0
     /\ response.list[1] > 0 \/ response.list[2] > 0
     /\ ~AboveCeiling(response.list)

\* C22: a token <a>.<b>m, <a> and <b> one digit each, is a + b/10 millions;
\* "1.5m" is 1,500,000.
C22_DecimalPoint ==
  ( /\ lastOp.op = "PARSE_AMOUNT"
    /\ Len(lastOp.name) = 4
    /\ lastOp.name[1] \in Digits /\ lastOp.name[2] = "." /\ lastOp.name[3] \in Digits
    /\ lastOp.name[4] = "m"
    /\ DigitValue(lastOp.name[1]) + DigitValue(lastOp.name[3]) > 0 )
  => /\ response.kind = "AMOUNT"
     /\ response.list = <<DigitValue(lastOp.name[1]), DigitValue(lastOp.name[3]) * 100000>>


\* the name of a remainder that starts with `@name`, {} when it does not
C23_MarkedName(rest) ==
  LET trimmed == Trim(rest) IN
  IF Len(trimmed) >= 2 /\ trimmed[1] = "@" /\ trimmed[2] # " "
  THEN {SubSeq(trimmed, 2, WordEnd(trimmed, 2))} ELSE {}

\* the note of a remainder: the text after `@name`, or the whole remainder
C23_Note(rest) ==
  LET trimmed == Trim(rest)
      note == IF C23_MarkedName(rest) = {} THEN trimmed
              ELSE Trim(SubSeq(trimmed, WordEnd(trimmed, 2) + 1, Len(trimmed)))
  IN IF note = <<>> THEN KhongCoNoiDung ELSE note

\* what the fixed-pattern grammar is to give for the pieces held in
\* lastOp.parts, the counterparty being Name(name) for a remainder that starts
\* with `@name`
C23_Expected(word, token, rest, names) ==
  LET lowered == [i \in 1..Len(word) |-> ToLowerChar(word[i])]
      kind == IF lowered \in DebtWords THEN "DEBT"
              ELSE IF lowered \in PaidWords THEN "PAID" ELSE "NONE"
  IN IF kind = "NONE" \/ ~IsAmount(parseAmount(token)) THEN Reply("NONE")
     ELSE ReplyList(kind, <<CHOOSE a \in parseAmount(token) : TRUE, names, C23_Note(rest)>>, 0)

\* C23 as stated: `no|nợ <amount> <rest>` and `tra|trả <amount> <rest>` give
\* DEBT resp. PAID with the parsed amount; when <rest> starts with `@name` the
\* counterparty is name with every underscore replaced by a space and the
\* note is the text after it, otherwise the counterparty is null and the
\* whole <rest> is the note; an empty note becomes the placeholder; with an
\* invalid amount token the tier gives no DEBT or PAID intent.
C23_FixedPattern ==
  lastOp.op = "PARSE_SYNC"
  => response = C23_Expected(lastOp.parts[1], lastOp.parts[2], lastOp.parts[3],
                             {UnderscoresToSpaces(n) : n \in C23_MarkedName(lastOp.parts[3])})

\* C23 amended: the same, the counterparty being name with every underscore
\* replaced by a space and the blanks at its two ends removed (the empty
\* name when name is made of underscores only).
C23_FixedPatternTrimmedName ==
  lastOp.op = "PARSE_SYNC"
  => response = C23_Expected(lastOp.parts[1], lastOp.parts[2], lastOp.parts[3],
                             {Trim(UnderscoresToSpaces(n)) : n \in C23_MarkedName(lastOp.parts[3])})

\* `no 5k @a_a` was parsed: a name with an underscore inside
C23_Witness ==
  /\ lastOp.op = "PARSE_SYNC"
  /\ lastOp.parts = <<<<"n", "o">>, <<"5", "k">>, <<"@", "a", "_", "a">>>>
  /\ response.kind = "DEBT"
  /\ response.list[2] = {<<"a", " ", "a">>}


\* a debt-keyword or a paid-keyword of the flexible scan
C24_IsKeyword(token) == isDebtWord(token) \/ isPaidWord(token)

\* the text scanned is `<keyword> n a t`: its first token is a keyword, the
\* first amount after it is not the second token, and no token between the
\* two is a keyword
C24_KeywordFirst(tokens) ==
  /\ Len(tokens) >= 3
  /\ C24_IsKeyword(tokens[1])
  /\ findFirstAmountIndex(tokens, 2) > 2
  /\ \A i \in 2..findFirstAmountIndex(tokens, 2) - 1 : ~C24_IsKeyword(tokens[i])

\* C24: in the flexible scan, for a name span n without keyword and without
\* amount, an amount a and note tokens t, `<keyword> n a t` and
\* `n <keyword> a t` parse to the same intent: the kind of the keyword, the
\* amount of a, the same counterparty, and the note made of every token after
\* a, or the placeholder when there is none.
C24_TwoForms ==
  (lastOp.op = "PARSE_FLEXIBLE" /\ C24_KeywordFirst(Split(lastOp.name)))
  => LET tokens == Split(lastOp.name)
         at == findFirstAmountIndex(tokens, 2)
         n == SubSeq(tokens, 2, at - 1)
         t == SubSeq(tokens, at + 1, Len(tokens))
         nameFirst == Join(n \o <<tokens[1], tokens[at]>> \o t)
     IN /\ response = ParseReply(parseFlexibleDebtOrPaid(friendLinks, aliases, lastOp.user,
                                                         nameFirst))
        /\ response.kind = IF isDebtWord(tokens[1]) THEN "DEBT" ELSE "PAID"
        /\ {response.list[1]} = parseAmount(tokens[at])
        /\ response.list[3] = IF t = <<>> THEN KhongCoNoiDung ELSE Join(t)

\* `tra Ai đó 5k Bao` was scanned for a party that calls a friend 'Ai đó'
C24_Witness ==
  /\ lastOp.op = "PARSE_FLEXIBLE"
  /\ lastOp.name = Join(<<<<"t", "r", "a">>, <<"A", "i">>, <<"d-", "o'">>, <<"5", "k">>, Bao>>)
  /\ response.kind = "PAID"
  /\ response.list = <<<<0, 5000>>, {AiDo}, Bao>>

\* the first and the last index of the name span of the tokens scanned:
\* the tokens between the keyword and the amount when the keyword is the
\* first token, the tokens before the keyword otherwise
C25_Span(tokens) ==
  LET at == FindIndex({i \in 1..Len(tokens) : C24_IsKeyword(tokens[i])}) IN
  IF at = 1 THEN <<2, findFirstAmountIndex(tokens, 2) - 1>> ELSE <<1, at - 1>>

\* the linked names of the invoker whose normalized text is that of text
C25_LinkedNames(text) ==
  LET friends == getLinkedFriends(friendLinks, aliases, lastOp.user) IN
  {i \in 1..Len(friends) :
     /\ friends[i].alias # NoName
     /\ normalizeVietnamese(friends[i].alias) = normalizeVietnamese(text)}

\* C25: the name span is matched against the invoker's linked names longest
\* sub-span first (and, at one length, leftmost first): the first sub-span
\* whose normalized text equals exactly one linked name gives that name as
\* counterparty; a sub-span that equals two or more linked names is not used;
\* when no sub-span matches uniquely the whole raw span text is the
\* counterparty.
C25_LongestUniqueSpan ==
  ( /\ lastOp.op = "PARSE_FLEXIBLE"
    /\ response.kind \in {"DEBT", "PAID"}
    /\ response.list[2] # {} )
  => LET tokens == Split(lastOp.name)
         span == C25_Span(tokens)
         friends == getLinkedFriends(friendLinks, aliases, lastOp.user)
         unique == {x \in (span[1]..span[2]) \X (span[1]..span[2]) :
                      /\ x[1] <= x[2]
                      /\ Cardinality(C25_LinkedNames(Join(SubSeq(tokens, x[1], x[2])))) = 1}
         longer(x, y) == x[2] - x[1] > y[2] - y[1]
         first == CHOOSE x \in unique :
                    \A y \in unique \ {x} :
                      longer(x, y) \/ (~longer(y, x) /\ x[1] < y[1])
         friend == CHOOSE i \in C25_LinkedNames(Join(SubSeq(tokens, first[1], first[2]))) : TRUE
     IN response.list[2] = IF unique # {} THEN {friends[friend].alias}
                           ELSE {Join(SubSeq(tokens, span[1], span[2]))}

\* `Bao Ai đó no 5k` was scanned for a party with the friends 'Ai đó' and
\* 'Bảo': the span of two tokens `Ai đó` goes before the span `Bao`
C25_Witness ==
  /\ lastOp.op = "PARSE_FLEXIBLE"
  /\ lastOp.name = Join(<<Bao, <<"A", "i">>, <<"d-", "o'">>, <<"n", "o">>, <<"5", "k">>>>)
  /\ Len(friendLinks) = 2 /\ friendLinks[2].AliasOfBForA = BaoAccent
  /\ response.list[2] = {AiDo}

\* `Bảo no 5k` was scanned for a party with the friends 'Bao' and 'Bảo': the
\* span equals two linked names and the raw text is the counterparty
C25_WitnessAmbiguous ==
  /\ lastOp.op = "PARSE_FLEXIBLE"
  /\ lastOp.name = Join(<<BaoAccent, <<"n", "o">>, <<"5", "k">>>>)
  /\ Len(friendLinks) = 2 /\ friendLinks[1].AliasOfBForA = Bao
  /\ friendLinks[2].AliasOfBForA = BaoAccent
  /\ response.list[2] = {BaoAccent}


\* C26 as stated: a message that matches no intent in either tier produces
\* only the 'command not understood' response to the sender and changes no
\* row of the Transaction, Alias or FriendLink tables.
C26_OnlyGenericReply ==
  [][ lastOp'.op = "NOT_UNDERSTOOD"
      => /\ response'.kind = "NOT_UNDERSTOOD"
         /\ outbox' = <<>>
         /\ UNCHANGED <<transactions, aliases, friendLinks>> ]_vars

\* C26 amended: such a message changes no row of the Transaction and
\* FriendLink tables and is answered 'command not understood'; when the
\* sender has no alias and the profile lookup gives a first name, the
\* first-contact auto-naming appends the sender's Alias row and sends the
\* greeting; otherwise the Alias table is unchanged and nothing else is sent.
C26_GenericReplyAfterAutoNaming ==
  [][ lastOp'.op = "NOT_UNDERSTOOD"
      => /\ response'.kind = "NOT_UNDERSTOOD"
         /\ UNCHANGED <<transactions, friendLinks>>
         /\ IF getAliasByUserId(aliases, lastOp'.user) = NoName /\ lastOp'.flag
            THEN /\ Len(aliases') = Len(aliases) + 1
                 /\ SubSeq(aliases', 1, Len(aliases)) = aliases
                 /\ aliases'[Len(aliases')].UserID = lastOp'.user
                 /\ outbox' = <<Note(lastOp'.user, "GREETING", "")>>
            ELSE /\ aliases' = aliases
                 /\ outbox' = <<>> ]_vars

\* a party with an alias sent a text without command while the three tables
\* had rows
C26_Witness ==
  /\ lastOp.op = "NOT_UNDERSTOOD"
  /\ getAliasByUserId(aliases, lastOp.user) # NoName
  /\ outbox = <<>>
  /\ transactions # <<>> /\ friendLinks # <<>>


\* the task t holds a row it read as PENDING and is about to save CONFIRMED
C27_ConfirmInFlight(t) == tasks[t].pc = "save" /\ tasks[t].newStatus = "CONFIRMED"

\* C27: two CONFIRM_DEBT of one PENDING code can both read PENDING and both
\* finalize: each write leaves the row CONFIRMED, reports success and
\* notifies the creator once (twice in all); the second write changes
\* nothing of the sheet, and no write alters another row.
C27_BothConfirmsFinalize ==
  [][ \A t \in Tasks :
        (C27_ConfirmInFlight(t) /\ tasks'[t] = Idle)
        => LET j == FindIndex({ix \in 1..Len(transactions) :
                                 transactions[ix].Date = tasks[t].row})
           IN /\ Len(transactions') = Len(transactions)
              /\ transactions'[j] = [transactions[j] EXCEPT !.Status = "CONFIRMED"]
              /\ \A k \in 1..Len(transactions) : k # j => transactions'[k] = transactions[k]
              /\ transactions[j].Status = "CONFIRMED" => transactions' = transactions
              /\ response' = ReplyCode("CONFIRM_OK", transactions[j].DebtCode)
              /\ outbox' = <<Note(transactions[j].UserID, "WAS_CONFIRMED",
                                  transactions[j].DebtCode)>> ]_vars

\* both handlers read K1 as PENDING; one has saved CONFIRMED, reported success
\* and notified the creator, the other is about to save
C27_Witness ==
  /\ \E t \in Tasks :
       /\ C27_ConfirmInFlight(t)
       /\ \E j \in 1..Len(transactions) :
            /\ transactions[j].Date = tasks[t].row
            /\ transactions[j].Status = "CONFIRMED"
            /\ transactions[j].DebtCode = lastOp.code
  /\ lastOp.op = "CONFIRM_DEBT"
  /\ response.kind = "CONFIRM_OK"
  /\ outbox # <<>>


\* C28: a successful CONFIRM_DEBT or REJECT_DEBT changes the Status of the
\* one row with the code and nothing else of the Transactions sheet (UserID,
\* Debtor, DebtorUserID, Type, Amount, Content, DebtCode and every other row
\* stay); one that ends in not-found, already-processed or unauthorized
\* changes no row and notifies nobody.
C28_OnlyTheStatus ==
  [][ IsDecision(lastOp')
      => LET j == findDebtByCode(transactions, lastOp'.code)
             newStatus == IF lastOp'.op = "CONFIRM_DEBT" THEN "CONFIRMED" ELSE "REJECTED"
         IN IF response'.kind \in {"CONFIRM_OK", "REJECT_OK"}
            THEN /\ j # 0
                 /\ transactions' = [transactions EXCEPT ![j].Status = newStatus]
                 /\ transactions'[j].Status # transactions[j].Status
                 /\ UNCHANGED <<aliases, friendLinks>>
            ELSE /\ response'.kind \in {"NOT_FOUND", "ALREADY_PROCESSED", "NOT_AUTHORIZED"}
                 /\ UNCHANGED <<transactions, aliases, friendLinks>>
                 /\ outbox' = <<>> ]_vars

\* K1 was rejected by its counterparty while the sheet had a second row
C28_Witness ==
  /\ lastOp.op = "REJECT_DEBT"
  /\ response.kind = "REJECT_OK"
  /\ Len(transactions) = 2
  /\ \E j \in 1..2 : transactions[j].DebtCode = lastOp.code /\ transactions[j].Status = "REJECTED"

\* a CONFIRM_DEBT of a code decided before was refused
C28_WitnessRefused ==
  /\ lastOp.op = "CONFIRM_DEBT"
  /\ response.kind = "ALREADY_PROCESSED"
  /\ transactions # <<>>


\* the rows of the Transactions sheet with the code
C29_Rows(code) == {j \in 1..Len(transactions) : transactions[j].DebtCode = code}

\* C29: notifications follow the write they report: when the counterparty is
\* notified of a new pending entry the PENDING row is in the sheet; when the
\* creator is notified of a confirmation or a rejection the new status is in
\* the sheet; nothing else sends these notifications; and when the status
\* write fails nothing is sent and the status stays PENDING.
C29_NotifyAfterWrite ==
  [][ /\ \A t \in Tasks :
           (tasks[t].pc = "notifyDebtor" /\ tasks'[t] = Idle)
           => /\ outbox' # <<>>
              /\ \A i \in 1..Len(outbox') :
                   /\ outbox'[i].kind = "NEW_PENDING"
                   /\ \E j \in C29_Rows(outbox'[i].code) :
                        /\ transactions[j].Status = "PENDING"
                        /\ transactions[j].DebtorUserID = outbox'[i].to
      /\ \A t \in Tasks :
           (tasks[t].pc = "notifyCreator" /\ tasks'[t] = Idle)
           => /\ outbox' # <<>>
              /\ \A i \in 1..Len(outbox') :
                   /\ outbox'[i].kind \in {"WAS_CONFIRMED", "WAS_REJECTED"}
                   /\ \E j \in C29_Rows(outbox'[i].code) :
                        /\ transactions[j].Status =
                             IF outbox'[i].kind = "WAS_CONFIRMED" THEN "CONFIRMED" ELSE "REJECTED"
                        /\ transactions[j].UserID = outbox'[i].to
      /\ (outbox' # outbox /\ outbox' # <<>>)
         => \E t \in Tasks : tasks[t].pc \in {"notifyDebtor", "notifyCreator"}
      /\ (\E t \in Tasks : tasks[t].pc = "save" /\ tasks'[t] = Idle)
         => /\ response'.kind = "SAVE_FAILED"
            /\ outbox' = <<>>
            /\ transactions' = transactions
            /\ \A j \in C29_Rows(lastOp'.code) : transactions[j].Status = "PENDING"
            /\ \A t \in Tasks : tasks'[t] = Idle ]_vars

\* the creator has been notified of the confirmation of K1
C29_Witness ==
  /\ lastOp.op = "CONFIRM_DEBT"
  /\ response.kind = "CONFIRM_OK"
  /\ outbox = <<Note("u1", "WAS_CONFIRMED", lastOp.code)>>
  /\ \E j \in C29_Rows(lastOp.code) : transactions[j].Status = "CONFIRMED"

\* the status write of a rejection has failed: the row is PENDING still
C29_WitnessFailedWrite ==
  /\ lastOp.op = "REJECT_DEBT"
  /\ response.kind = "SAVE_FAILED"
  /\ \E j \in C29_Rows(lastOp.code) : transactions[j].Status = "PENDING"


\* a row changes its status from PENDING only, to ACTIVE or EXPIRED, and a
\* row that is not PENDING is never written again
C30_StatusMoves ==
  /\ Len(friendLinks') >= Len(friendLinks)
  /\ \A i \in 1..Len(friendLinks) :
       /\ friendLinks'[i].Status # friendLinks[i].Status
          => /\ friendLinks[i].Status = "PENDING"
             /\ friendLinks'[i].Status \in {"ACTIVE", "EXPIRED"}
       /\ friendLinks[i].Status # "PENDING" => friendLinks'[i] = friendLinks[i]

\* a redemption refused as self-link or as already-linked writes nothing, the
\* row of the code stays PENDING
C30_RefusalWritesNothing ==
  (lastOp'.op = "LINK_FRIEND" /\ response'.kind \in {"SELF_LINK", "ALREADY_LINKED"})
  => /\ friendLinks' = friendLinks
     /\ RowsWith(friendLinks', lastOp'.code, "PENDING") # {}

\* C30 as stated: with operations one at a time, a FriendLink row's status
\* only moves PENDING -> ACTIVE or PENDING -> EXPIRED and then never changes;
\* every redemption of a code after a successful one fails and leaves the row
\* unchanged; a redemption refused as self-link or already-linked leaves the
\* row PENDING and unchanged.
C30_RedeemableOnce ==
  [][ /\ C30_StatusMoves
      /\ C30_RefusalWritesNothing
      /\ ( /\ lastOp'.op = "LINK_FRIEND"
           /\ RowsWith(friendLinks, lastOp'.code, "ACTIVE") # {} )
         => /\ response'.kind # "LINKED"
            /\ \A i \in RowsWith(friendLinks, lastOp'.code, "ACTIVE") :
                 friendLinks'[i] = friendLinks[i]
    ]_vars

\* C30 as amended: the same, the redemptions after a successful one being
\* those of a code that no PENDING row carries (a share code issued later
\* with the same value can be redeemed once more).
C30_RedeemableOnceUnlessReissued ==
  [][ /\ C30_StatusMoves
      /\ C30_RefusalWritesNothing
      /\ ( /\ lastOp'.op = "LINK_FRIEND"
           /\ RowsWith(friendLinks, lastOp'.code, "ACTIVE") # {}
           /\ RowsWith(friendLinks, lastOp'.code, "PENDING") = {} )
         => /\ response'.kind = "INVALID_CODE"
            /\ friendLinks' = friendLinks
    ]_vars

\* a code was redeemed again after a successful redemption, and refused
C30_Witness ==
  /\ lastOp.op = "LINK_FRIEND"
  /\ response.kind = "INVALID_CODE"
  /\ RowsWith(friendLinks, lastOp.code, "ACTIVE") # {}

\* a redemption was refused as already-linked, the row of the code is PENDING
C30_WitnessRefused ==
  /\ lastOp.op = "LINK_FRIEND"
  /\ response.kind = "ALREADY_LINKED"
  /\ RowsWith(friendLinks, lastOp.code, "PENDING") # {}


\* the rows of the Transactions sheet addressed to the party and still PENDING
C31_Due(userId) ==
  {i \in 1..Len(transactions) :
     transactions[i].DebtorUserID = userId /\ transactions[i].Status = "PENDING"}

\* entry k of the listing shows row i
C31_Shows(k, i) ==
  /\ response.list[k].DebtCode = transactions[i].DebtCode
  /\ response.list[k].Type = transactions[i].Type
  /\ response.list[k].Amount = transactions[i].Amount
  /\ response.list[k].Content = transactions[i].Content

\* C31: after `pending` of party P the listing holds exactly the rows whose
\* DebtorUserID is P and whose Status is PENDING: one entry per such row, no
\* entry for a row that was confirmed, rejected or deleted by UNDO, and none
\* for a row P created for somebody else.
C31_PendingListing ==
  lastOp.op = "PENDING_LIST" =>
    /\ (response.kind = "NO_PENDING") <=> (C31_Due(lastOp.user) = {})
    /\ Len(response.list) = Cardinality(C31_Due(lastOp.user))
    /\ \A i \in C31_Due(lastOp.user) : \E k \in 1..Len(response.list) : C31_Shows(k, i)
    /\ \A k \in 1..Len(response.list) : \E i \in C31_Due(lastOp.user) : C31_Shows(k, i)

\* a party listed one entry while the sheet also held a row of its own
\* making that is addressed to the other party
C31_Witness ==
  /\ lastOp.op = "PENDING_LIST"
  /\ Len(response.list) = 1
  /\ \E i \in 1..Len(transactions) :
       /\ transactions[i].UserID = lastOp.user
       /\ transactions[i].DebtorUserID # lastOp.user
       /\ transactions[i].Status = "PENDING"

\* a party's listing is empty while a row addressed to it was decided
C31_WitnessDecided ==
  /\ lastOp.op = "PENDING_LIST"
  /\ response.kind = "NO_PENDING"
  /\ \E i \in 1..Len(transactions) :
       /\ transactions[i].DebtorUserID = lastOp.user
       /\ transactions[i].Status \in {"CONFIRMED", "REJECTED"}


\* the rows of the sheet that carry the code
C32_Carriers(code) == {i \in 1..Len(transactions) : transactions[i].DebtCode = code}

\* the row inserted first among those that carry the code: appendRow stamps
\* rows with increasing dates
C32_Earliest(code) ==
  CHOOSE i \in C32_Carriers(code) :
    \A j \in C32_Carriers(code) : transactions[i].Date <= transactions[j].Date

\* C32: when two or more rows carry the code of a CONFIRM_DEBT or REJECT_DEBT,
\* the command acts on the row inserted first: every other row is left as it
\* was, and when that first row is not PENDING the reply is 'already
\* processed' and the sheet is unchanged, a later PENDING row included.
C32_EarliestRowDecides ==
  [][(IsDecision(lastOp') /\ Cardinality(C32_Carriers(lastOp'.code)) >= 2) =>
       LET e == C32_Earliest(lastOp'.code) IN
       /\ Len(transactions') = Len(transactions)
       /\ \A j \in 1..Len(transactions) : j # e => transactions'[j] = transactions[j]
       /\ transactions[e].Status # "PENDING" =>
            /\ response'.kind = "ALREADY_PROCESSED"
            /\ transactions' = transactions
       /\ (transactions[e].Status = "PENDING" /\ transactions[e].DebtorUserID = lastOp'.user) =>
            /\ transactions'[e].Status = (IF lastOp'.op = "CONFIRM_DEBT" THEN "CONFIRMED" ELSE "REJECTED")
            /\ response'.kind \in {"CONFIRM_OK", "REJECT_OK"}]_vars

\* two rows carry the code, the first was decided before, the second is
\* PENDING and addressed to the invoker: the command was refused and the
\* second row is still PENDING
C32_Witness ==
  /\ IsDecision(lastOp)
  /\ response.kind = "ALREADY_PROCESSED"
  /\ Len(transactions) = 2
  /\ transactions[1].DebtCode = lastOp.code
  /\ transactions[2].DebtCode = lastOp.code
  /\ transactions[1].Status # "PENDING"
  /\ transactions[2].Status = "PENDING"
  /\ transactions[2].DebtorUserID = lastOp.user


\* the linked counterparties of the party whose name normalizes to the
\* normalized label
C33_Candidates(userId, label) ==
  LET friends == getLinkedFriends(friendLinks, aliases, userId) IN
  {friends[i].userId : i \in {j \in 1..Len(friends) :
     friends[j].alias # NoName
     /\ normalizeVietnamese(friends[j].alias) = normalizeVietnamese(label)}}

\* C33: a DEBT or PAID read by the flexible scan (no fixed pattern matches
\* the text) whose recorded label normalizes to the name of two or more
\* linked counterparties of the invoker is written CONFIRMED with an empty
\* DebtorUserID: none of the candidates is picked.
C33_AmbiguousNamePicksNobody ==
  [][(/\ lastOp'.op \in {"DEBT", "PAID"}
      /\ Len(transactions') = Len(transactions) + 1
      /\ parseCommandSync(lastOp'.name) = {}
      /\ Cardinality(C33_Candidates(lastOp'.user,
                                    transactions'[Len(transactions')].Debtor)) >= 2) =>
       /\ transactions'[Len(transactions')].DebtorUserID = ""
       /\ transactions'[Len(transactions')].Status = "CONFIRMED"]_vars


\* C34: a DEBT or PAID during which a store call failed is answered with the
\* error message and leaves the Transactions sheet as it was; a command whose
\* name resolves to a linked party on the sheets as they are never appends a
\* CONFIRMED row without DebtorUserID.
C34_StoreFailureCommitsNothing ==
  [][(lastOp'.op \in {"DEBT", "PAID"} /\ lastOp'.flag) =>
       /\ response'.kind = "ERROR"
       /\ transactions' = transactions
       /\ (/\ lastOp'.name # NoName
           /\ getFriendUserId(friendLinks, aliases, lastOp'.user, lastOp'.name) # ""
           /\ Len(transactions') = Len(transactions) + 1) =>
            ~(/\ transactions'[Len(transactions')].Status = "CONFIRMED"
              /\ transactions'[Len(transactions')].DebtorUserID = "")]_vars


\* the replies a message may end with: the result of its command, the hint,
\* the error message
C35_Replies ==
  {"RECORDED", "PENDING_SENT", "UNDONE", "NOTHING_TO_UNDO", "CONFIRM_OK", "NOT_FOUND",
   "ALREADY_PROCESSED", "NOT_AUTHORIZED", "NO_PENDING", "PENDING_LIST",
   "NOT_UNDERSTOOD", "ERROR"}

\* C35: under fair scheduling every event of the batch that is not an echo
\* ends with a message sent to its sender, which carries the result of the
\* command, the hint for a text that is not understood or the error
\* message, and an echo never gets past the loop of the webhook.
C35_EveryMessageAnswered ==
  /\ \A t \in Tasks : (tasks[t].pc = "event" /\ ~tasks[t].echo) ~> (tasks[t].pc = "done")
  /\ [][\A t \in Tasks :
          (tasks[t].pc # "done" /\ tasks'[t].pc = "done") =>
            /\ lastOp'.user = tasks[t].user
            /\ response' = tasks[t].reply
            /\ response'.kind \in C35_Replies]_vars
  /\ [](\A t \in Tasks : tasks[t].echo => tasks[t].pc \in {"event", "dropped"})

\* both events of a batch were answered, one of them with the error message
\* after its write had failed
C35_Witness ==
  /\ \A t \in Tasks : tasks[t].pc = "done" /\ ~tasks[t].echo
  /\ \E t \in Tasks : tasks[t].reply.kind = "ERROR"
  /\ lastOp.op \in InboundKinds


\* C36: no row of the Transactions sheet is addressed to the party that
\* created it: DebtorUserID is never the row's UserID.
C36_NoSelfAddressedEntry ==
  \A i \in 1..Len(transactions) : transactions[i].DebtorUserID # transactions[i].UserID


\* the linked counterparties of the party, in the order `friends` numbers them
C37_Friends(fl, al, userId) ==
  LET friends == getLinkedFriends(fl, al, userId) IN
  [i \in 1..Len(friends) |-> friends[i].userId]

\* C37: a step never moves a linked counterparty to another index of a
\* party's list: the list after the step starts with the list before it.
C37_IndicesStable ==
  [][\A userId \in Users :
       LET before == C37_Friends(friendLinks, aliases, userId)
           after == C37_Friends(friendLinks', aliases', userId)
       IN /\ Len(before) <= Len(after)
          /\ \A i \in 1..Len(before) : after[i] = before[i]]_vars


\* the notifications a decision sends to the creator of a row
C38_DecisionNotes(notes) ==
  {i \in 1..Len(notes) : notes[i].kind \in {"WAS_CONFIRMED", "WAS_REJECTED"}}

\* C38: a CONFIRM_DEBT or REJECT_DEBT whose code no row carries any more,
\* the row that carried it having been deleted by UNDO before it was
\* decided, is answered 'not found', changes no row and notifies nobody.
C38_UndoneCodeNotFound ==
  [][(/\ IsDecision(lastOp')
      /\ lastOp'.code \notin decided
      /\ \A i \in 1..Len(transactions) : transactions[i].DebtCode # lastOp'.code) =>
       /\ response'.kind = "NOT_FOUND"
       /\ transactions' = transactions
       /\ C38_DecisionNotes(outbox') = {}]_vars

\* K1, the code of the PENDING row the sheet started with, was never decided,
\* its row is gone after the creator's UNDO, another row is PENDING, and a
\* decision on K1 was answered 'not found'
C38_Witness ==
  /\ IsDecision(lastOp)
  /\ lastOp.code = "K1"
  /\ "K1" \notin decided
  /\ response.kind = "NOT_FOUND"
  /\ \A i \in 1..Len(transactions) : transactions[i].DebtCode # "K1"
  /\ \E i \in 1..Len(transactions) :
       transactions[i].Status = "PENDING" /\ transactions[i].DebtorUserID = lastOp.user


\* the two events of the batch are text messages of one party
C39_SameParty ==
  /\ tasks["t1"].user = tasks["t2"].user
  /\ ~tasks["t1"].echo /\ ~tasks["t2"].echo
  /\ tasks["t1"].kind # "QR_UNDO" /\ tasks["t2"].kind # "QR_UNDO"

\* the handler of the task has made its reads and writes
C39_Handled(t) == tasks[t].pc \in {"respond", "done"}

\* C39 as stated: of two text messages of one party in one batch, the
\* handler of the second reads the store only after the handler of the first
\* has made its writes.
C39_InArrivalOrder ==
  (C39_SameParty /\ C39_Handled("t2")) => C39_Handled("t1")

\* C39, amended: the events of a batch are dispatched in the order of the
\* batch, and a handler reads the store as it is when it runs: an `undo`
\* whose handler runs after the handler of the same party's DEBT has written
\* removes exactly that row.
C39_DispatchedInOrder ==
  /\ [](tasks["t2"].pc # "event" => tasks["t1"].pc # "event")
  /\ [][(/\ C39_SameParty
         /\ tasks["t1"].kind = "DEBT" /\ tasks["t2"].kind = "UNDO"
         /\ C39_Handled("t1")
         /\ tasks["t1"].reply.kind \in {"RECORDED", "PENDING_SENT"}
         /\ tasks["t2"].pc = "handle"
         /\ tasks'["t2"].pc = "respond"
         /\ tasks'["t2"].reply.kind # "ERROR") =>
          /\ tasks'["t2"].reply.kind = "UNDONE"
          /\ Len(transactions) = 1
          /\ transactions[1].UserID = tasks["t1"].user
          /\ transactions' = <<>>]_vars

\* a DEBT and an `undo` of one party in one batch, handled in that order:
\* both were answered and the sheet is empty again
C39_Witness ==
  /\ C39_SameParty
  /\ tasks["t1"].kind = "DEBT" /\ tasks["t2"].kind = "UNDO"
  /\ tasks["t1"].pc = "done" /\ tasks["t2"].pc = "done"
  /\ tasks["t1"].reply.kind = "PENDING_SENT"
  /\ tasks["t2"].reply.kind = "UNDONE"
  /\ transactions = <<>>

====
